---------------------------- MODULE Spec2Model ----------------------------
(***************************************************************************)
(* Model of the iterative ensemble smoother update core (ies_enkf.cpp):    *)
(* the persistent iteration state (ies::data_type), the two entry points   *)
(* init_update and updateA, and the mask / active-slice algebra            *)
(* (alloc_active, linalg_store_active_W).                                  *)
(*                                                                         *)
(* Indices are 1-based here and 0-based in the source.                     *)
(***************************************************************************)
EXTENDS Integers, Sequences, FiniteSets, TLC

VARIABLES
    data,       \* the ies::data_type object handed to init_update / updateA
    A,          \* the driver's parameters of all realizations: updateA is handed
                \* the columns of the active ones and writes them back
    call,       \* what the last call was, what it was given and what it computed
    sl,         \* inputs and result of a function taken on its own
                \* (SpecSlice, SpecLowrank)
    env,        \* the driver of the run (never changes)
    th,         \* two state objects, each driven by a thread of its own, and
                \* the logger the threads share (SpecThreads)
    gdc,        \* a gen_data_config object and the threads calling it
                \* (SpecGenData)
    meas        \* a meas_data object, its blocks and the threads adding blocks
                \* to it (SpecMeasBlock, SpecMeasData, SpecMeasThreads)

vars == <<data, A, call, sl, env, th, gdc, meas>>

-----------------------------------------------------------------------------
(* Bounds of the model *)

\* length of the ensemble mask (N0)
EnsSize == 3
\* length of the observation mask (m0)
ObsSize == 2
\* number of updateA calls of one run
MaxIter == 3
\* largest number of rows of the parameter matrix A (state_size)
StateRows == 2
\* largest row / column count of the matrices of SpecSlice
SliceSize == 2

\* the realizations a driver keeps at least (ens_size - 1.0 is a divisor in
\* ies_initX__, and 1/sqrt(0) is not a number)
MinActive == 2

-----------------------------------------------------------------------------
(* Dense matrices (matrix_type) and boolean vectors (bool_vector_type) *)

\* a pointer field that is not set
NULL == [null |-> TRUE]
\* a bool_vector pointer that is not set (the masks of the model are not empty)
NoMask == <<>>

matrix_get_rows(M) == M.rows
matrix_get_columns(M) == M.cols

\* matrix_alloc: a rows x columns matrix of zeros
matrix_alloc(rows, columns) ==
    [rows |-> rows, cols |-> columns,
     val |-> [i \in 1..rows |-> [j \in 1..columns |-> 0]]]

\* a matrix with entry f[i][j] at row i, column j
MatrixOf(rows, columns, f) ==
    [rows |-> rows, cols |-> columns,
     val |-> [i \in 1..rows |-> [j \in 1..columns |-> f[i][j]]]]

\* a read outside the matrix gives -1 in the model; every caller that can
\* read outside checks InRange and fails instead of using it
matrix_iget(M, i, j) ==
    IF i \in 1..M.rows /\ j \in 1..M.cols THEN M.val[i][j] ELSE -1

bool_vector_size(mask) == Len(mask)

RECURSIVE bool_vector_count_upto(_, _, _)
bool_vector_count_upto(mask, value, n) ==
    IF n = 0 THEN 0
    ELSE bool_vector_count_upto(mask, value, n - 1)
         + (IF mask[n] = value THEN 1 ELSE 0)

bool_vector_count_equal(mask, value) ==
    bool_vector_count_upto(mask, value, Len(mask))

\* all boolean vectors of length n
Masks(n) == [1..n -> BOOLEAN]

-----------------------------------------------------------------------------
(* alloc_active: the sub-matrix of the rows and columns both masks select *)

\* the inner loop over iens: the selected entries of row iobs, in order
RECURSIVE alloc_active_row(_, _, _, _, _)
alloc_active_row(full_matrix, column_mask, iobs, iens, acc) ==
    IF iens > bool_vector_size(column_mask) THEN acc
    ELSE IF column_mask[iens]
         THEN alloc_active_row(full_matrix, column_mask, iobs, iens + 1,
                               Append(acc, matrix_iget(full_matrix, iobs, iens)))
         ELSE alloc_active_row(full_matrix, column_mask, iobs, iens + 1, acc)

\* the outer loop over iobs: the selected rows, in order
RECURSIVE alloc_active_rows(_, _, _, _, _)
alloc_active_rows(full_matrix, row_mask, column_mask, iobs, acc) ==
    IF iobs > bool_vector_size(row_mask) THEN acc
    ELSE IF row_mask[iobs]
         THEN alloc_active_rows(full_matrix, row_mask, column_mask, iobs + 1,
                  Append(acc, alloc_active_row(full_matrix, column_mask, iobs, 1, <<>>)))
         ELSE alloc_active_rows(full_matrix, row_mask, column_mask, iobs + 1, acc)

\* alloc_active with the rows selected by the column mask
alloc_active_one_mask(full_matrix, row_mask, column_mask) ==
    [rows |-> bool_vector_count_equal(row_mask, TRUE),
     cols |-> bool_vector_count_equal(column_mask, TRUE),
     val  |-> alloc_active_rows(full_matrix, column_mask, column_mask, 1, <<>>)]

alloc_active(full_matrix, row_mask, column_mask) ==
    [rows |-> bool_vector_count_equal(row_mask, TRUE),
     cols |-> bool_vector_count_equal(column_mask, TRUE),
     val  |-> alloc_active_rows(full_matrix, row_mask, column_mask, 1, <<>>)]

\* alloc_active reads full_matrix at every (iobs, iens) both masks select:
\* all those reads are inside full_matrix
alloc_active_in_range(full_matrix, row_mask, column_mask) ==
    \A iobs \in 1..Len(row_mask) : \A iens \in 1..Len(column_mask) :
        (row_mask[iobs] /\ column_mask[iens])
            => (iobs <= full_matrix.rows /\ iens <= full_matrix.cols)


-----------------------------------------------------------------------------
(* linalg_store_active_W: write the active coefficients W0 back into the   *)
(* full data->W, which is zeroed first                                      *)

\* the inner loop over jens; j counts the active columns passed so far
RECURSIVE store_active_W_row(_, _, _, _, _, _, _)
store_active_W_row(dataW, ens_mask, W0, iens, i, jens, j) ==
    IF jens > bool_vector_size(ens_mask) THEN dataW
    ELSE IF ens_mask[jens]
         THEN store_active_W_row(
                  \* matrix_iset_safe: a write outside the matrix is skipped
                  IF iens \in 1..dataW.rows /\ jens \in 1..dataW.cols
                  THEN [dataW EXCEPT !.val[iens][jens] = matrix_iget(W0, i, j)]
                  ELSE dataW,
                  ens_mask, W0, iens, i, jens + 1, j + 1)
         ELSE store_active_W_row(dataW, ens_mask, W0, iens, i, jens + 1, j)

\* the outer loop without i += 1
RECURSIVE store_active_W_rows_same_i(_, _, _, _, _)
store_active_W_rows_same_i(dataW, ens_mask, W0, iens, i) ==
    IF iens > bool_vector_size(ens_mask) THEN dataW
    ELSE IF ens_mask[iens]
         THEN store_active_W_rows_same_i(
                  store_active_W_row(dataW, ens_mask, W0, iens, i, 1, 1),
                  ens_mask, W0, iens + 1, i)
         ELSE store_active_W_rows_same_i(dataW, ens_mask, W0, iens + 1, i)

\* the outer loop over iens; i counts the active rows passed so far
RECURSIVE store_active_W_rows(_, _, _, _, _)
store_active_W_rows(dataW, ens_mask, W0, iens, i) ==
    IF iens > bool_vector_size(ens_mask) THEN dataW
    ELSE IF ens_mask[iens]
         THEN store_active_W_rows(
                  store_active_W_row(dataW, ens_mask, W0, iens, i, 1, 1),
                  ens_mask, W0, iens + 1, i + 1)
         ELSE store_active_W_rows(dataW, ens_mask, W0, iens + 1, i)

\* linalg_store_active_W without matrix_set(dataW, 0.0)
linalg_store_active_W_not_zeroed(d, W0) ==
    [d EXCEPT !.W = store_active_W_rows(d.W, d.ens_mask, W0, 1, 1)]

\* linalg_store_active_W: matrix_set(dataW, 0.0), then the active entries
linalg_store_active_W(d, W0) ==
    LET zeroed == [d.W EXCEPT !.val = matrix_alloc(d.W.rows, d.W.cols).val]
    IN  [d EXCEPT !.W = store_active_W_rows(zeroed, d.ens_mask, W0, 1, 1)]


-----------------------------------------------------------------------------
(* Numbers.  The entries of W, E, D are integers.  X = I + W0/sqrt(N-1)    *)
(* and A0*X are kept exact as re + sc/sqrt(den), N the active ensemble     *)
(* size of the call.                                                        *)

Num(a) == [re |-> a, sc |-> 0, den |-> 1]

\* sqrt(1) = 1: the scaled part of a number over sqrt(1) is rational
NumNorm(x) ==
    IF x.den = 1 THEN [re |-> x.re + x.sc, sc |-> 0, den |-> 1]
    ELSE IF x.sc = 0 THEN [re |-> x.re, sc |-> 0, den |-> 1]
    ELSE x

\* x + y for numbers over the same root (or rational ones)
NumAdd(x, y) ==
    NumNorm([re |-> x.re + y.re, sc |-> x.sc + y.sc,
             den |-> IF x.sc = 0 THEN y.den ELSE x.den])

RECURSIVE NumDot(_, _, _, _, _)
\* sum over k <= n of L[i][k] * R[k][j]
NumDot(L, R, i, j, n) ==
    IF n = 0 THEN Num(0)
    ELSE LET a == L.val[i][n]
             y == R.val[n][j]
         IN  \* a * y for a rational a (the entries of A0 are the driver's
             \* initial integers)
             NumAdd(NumDot(L, R, i, j, n - 1),
                    NumNorm([re |-> a.re * y.re, sc |-> a.re * y.sc,
                             den |-> y.den]))

\* matrix_matmul(C, A, B): C = A * B
matrix_matmul(L, R) ==
    [rows |-> L.rows, cols |-> R.cols,
     val |-> [i \in 1..L.rows |-> [j \in 1..R.cols |-> NumDot(L, R, i, j, L.cols)]]]

-----------------------------------------------------------------------------
(* The configuration ies::config::config_type (ies_config.cpp).  A double  *)
(* is held in hundredths: 60 is 0.60, 250 is 2.50, -100 is -1.0.           *)

\* the inversion_type enum
IES_INVERSION_EXACT == 0
IES_INVERSION_SUBSPACE_EXACT_R == 1
IES_INVERSION_SUBSPACE_EE_R == 2
IES_INVERSION_SUBSPACE_RE == 3

\* the truncation is a std::variant<double, int>: kind "double" or "int"
TruncationDouble(value) == [kind |-> "double", value |-> value]

\* config_alloc: subspace inversion with exact R, truncation 0.98, step
\* lengths from 0.60 down to 0.30 with decay 2.50
config_alloc ==
    [inversion |-> IES_INVERSION_SUBSPACE_EXACT_R,
     truncation |-> TruncationDouble(98),
     max_steplength |-> 60, min_steplength |-> 30, dec_steplength |-> 250,
     aaprojection |-> FALSE, logfile |-> ""]

get_inversion(config) == config.inversion
get_truncation(config) == config.truncation
get_max_steplength(config) == config.max_steplength
get_min_steplength(config) == config.min_steplength
get_dec_steplength(config) == config.dec_steplength
get_aaprojection(config) == config.aaprojection

\* the setters: [err, config]; a refused value leaves the configuration
set_aaprojection(config, aaprojection) ==
    [err |-> "none", config |-> [config EXCEPT !.aaprojection = aaprojection]]

set_logfile(config, logfile) ==
    [err |-> "none", config |-> [config EXCEPT !.logfile = logfile]]

set_inversion(config, ies_inversion) ==
    [err |-> "none", config |-> [config EXCEPT !.inversion = ies_inversion]]

set_truncation(config, truncation) ==
    IF truncation > 0 /\ truncation <= 100
    THEN [err |-> "none",
          config |-> [config EXCEPT !.truncation = TruncationDouble(truncation)]]
    ELSE [err |-> "ConfigError", config |-> config]

set_subspace_dimension(config, subspace_dimension) ==
    IF subspace_dimension >= 1
    THEN [err |-> "none",
          config |-> [config EXCEPT
                         !.truncation = [kind |-> "int",
                                         value |-> subspace_dimension]]]
    ELSE [err |-> "ConfigError", config |-> config]

set_max_steplength(config, max_steplength) ==
    IF max_steplength < config.min_steplength
    THEN [err |-> "ConfigError", config |-> config]
    ELSE [err |-> "none",
          config |-> [config EXCEPT !.max_steplength = max_steplength]]

set_min_steplength(config, min_steplength) ==
    IF config.max_steplength < min_steplength
    THEN [err |-> "ConfigError", config |-> config]
    ELSE [err |-> "none",
          config |-> [config EXCEPT !.min_steplength = min_steplength]]

set_dec_steplength(config, dec_steplength) ==
    IF dec_steplength <= 100
    THEN [err |-> "ConfigError", config |-> config]
    ELSE [err |-> "none",
          config |-> [config EXCEPT !.dec_steplength = dec_steplength]]

\* calculate_steplength with the sign of the exponent lost:
\* min + (max - min) * pow(2, (iter - 1)/(dec - 1))
calculate_steplength_growing(config, iteration_nr) ==
    [min  |-> config.min_steplength,
     diff |-> config.max_steplength - config.min_steplength,
     num  |-> 100 * (1 - iteration_nr),
     den  |-> config.dec_steplength - 100]

\* calculate_steplength: min + (max - min) * pow(2, -(iter - 1)/(dec - 1)),
\* kept as the terms of the formula: the value is
\* (min + diff * 2^(-num/den)) / 100
calculate_steplength(config, iteration_nr) ==
    [min  |-> config.min_steplength,
     diff |-> config.max_steplength - config.min_steplength,
     num  |-> 100 * (iteration_nr - 1),
     den  |-> config.dec_steplength - 100]

-----------------------------------------------------------------------------
(* The iteration state ies::data_type (ies_data.cpp) *)

\* data_alloc
data_alloc ==
    [ens_mask |-> NoMask, obs_mask |-> NoMask, obs_mask0 |-> NoMask,
     W |-> NULL, E |-> NULL, A0 |-> NULL,
     iteration_nr |-> 0, state_size |-> 0,
     config |-> config_alloc]

data_get_config(d) == d.config
data_get_iteration_nr(d) == d.iteration_nr

\* data_set_iteration_nr: the counter is written as given
data_set_iteration_nr(d, iteration_nr) == [d EXCEPT !.iteration_nr = iteration_nr]

data_get_ens_mask_size(d) == bool_vector_size(d.ens_mask)
data_get_obs_mask_size(d) == bool_vector_size(d.obs_mask)

\* data_update_ens_mask: [err, data]; the assertions come before the copy
data_update_ens_mask(d, ens_mask) ==
    IF d.ens_mask = NoMask
    THEN [err |-> "none",
          data |-> [d EXCEPT !.ens_mask = ens_mask,
                             !.W = matrix_alloc(bool_vector_size(ens_mask),
                                                bool_vector_size(ens_mask))]]
    \* the stored mask admits the new one: same size, no bit from false to
    \* true
    ELSE IF /\ bool_vector_size(ens_mask) = bool_vector_size(d.ens_mask)
            /\ \A i \in 1..bool_vector_size(d.ens_mask) :
                   ens_mask[i] => d.ens_mask[i]
         THEN [err |-> "none", data |-> [d EXCEPT !.ens_mask = ens_mask]]
         ELSE [err |-> "MaskError", data |-> d]

\* data_allocateW: only if W is absent
data_allocateW(d) ==
    IF d.W = NULL
    THEN [d EXCEPT !.W = matrix_alloc(data_get_ens_mask_size(d),
                                      data_get_ens_mask_size(d))]
    ELSE d

\* store_initial_obs_mask: the first call wins
store_initial_obs_mask(d, obs_mask) ==
    IF d.obs_mask0 = NoMask THEN [d EXCEPT !.obs_mask0 = obs_mask] ELSE d

\* update_obs_mask: every call
update_obs_mask(d, obs_mask) == [d EXCEPT !.obs_mask = obs_mask]

\* data_inc_iteration_nr: pre-increment
data_inc_iteration_nr(d) == [d EXCEPT !.iteration_nr = d.iteration_nr + 1]

data_update_state_size(d, state_size) == [d EXCEPT !.state_size = state_size]

\* data_store_initialA: the first call wins
data_store_initialA(d, A_in) ==
    IF d.A0 = NULL THEN [d EXCEPT !.A0 = A_in] ELSE d


\* the active rank of index i of a mask: the true entries among 1..i
active_rank(mask, i) == bool_vector_count_upto(mask, TRUE, i)

\* E holds one row per observation of obs_mask and one column per realization
\* of ens_mask; held is the set of rows that hold stored perturbations.
\* Row iobs is filled from the row of E_in at the active rank of iobs.
E_with_rows(E, rows, obs_mask, ens_mask, E_in) ==
    [E EXCEPT
       !.val = [iobs \in 1..E.rows |-> [iens \in 1..E.cols |->
                  IF iobs \in rows /\ ens_mask[iens]
                  THEN matrix_iget(E_in, active_rank(obs_mask, iobs),
                                         active_rank(ens_mask, iens))
                  ELSE E.val[iobs][iens]]],
       !.held = E.held \cup rows]

\* data_store_initialE: on the first iteration E_in is copied into E
data_store_initialE(d, E_in) ==
    IF d.E = NULL
    THEN [d EXCEPT !.E =
            E_with_rows([rows |-> data_get_obs_mask_size(d),
                         cols |-> data_get_ens_mask_size(d),
                         val  |-> matrix_alloc(data_get_obs_mask_size(d),
                                               data_get_ens_mask_size(d)).val,
                         held |-> {}],
                        {iobs \in 1..data_get_obs_mask_size(d) : d.obs_mask[iobs]},
                        d.obs_mask, d.ens_mask, E_in)]
    ELSE d

\* data_augment_initialE: when more observations are active than E holds rows,
\* the rows of the observations newly active since obs_mask0 are added;
\* rows E holds are never rewritten
data_augment_initialE(d, E_in) ==
    IF d.E # NULL
       /\ bool_vector_count_equal(d.obs_mask, TRUE) > Cardinality(d.E.held)
    THEN [d EXCEPT !.E =
            E_with_rows(d.E,
                        {iobs \in 1..data_get_obs_mask_size(d) :
                            /\ d.obs_mask[iobs]
                            /\ ~d.obs_mask0[iobs]
                            /\ iobs \notin d.E.held},
                        d.obs_mask, d.ens_mask, E_in)]
    ELSE d

-----------------------------------------------------------------------------
(* The active slices of the iteration state *)

alloc_activeE(d) == alloc_active(d.E, d.obs_mask, d.ens_mask)

alloc_activeW(d) == alloc_active(d.W, d.ens_mask, d.ens_mask)

\* state_mask: all rows of A0
alloc_activeA(d) ==
    alloc_active(d.A0, [i \in 1..matrix_get_rows(d.A0) |-> TRUE], d.ens_mask)

alloc_activeA_in_range(d) ==
    alloc_active_in_range(d.A0, [i \in 1..matrix_get_rows(d.A0) |-> TRUE], d.ens_mask)


-----------------------------------------------------------------------------
(* The inputs a driver hands to the core *)

\* the entries of an input matrix tell its tag, row and column
Ein_of(tag, rows, columns) ==
    MatrixOf(rows, columns,
             [i \in 1..rows |-> [j \in 1..columns |-> 100 * tag + 10 * i + j]])

Din_of(rows, columns) ==
    MatrixOf(rows, columns, [i \in 1..rows |-> [j \in 1..columns |-> i + j]])

Yin_of(rows, columns) ==
    MatrixOf(rows, columns, [i \in 1..rows |-> [j \in 1..columns |-> i + j]])

Rin_of(rows) ==
    MatrixOf(rows, rows, [i \in 1..rows |-> [j \in 1..rows |-> IF i = j THEN 1 ELSE 0]])

A_of(rows, columns) ==
    MatrixOf(rows, columns,
             [i \in 1..rows |-> [j \in 1..columns |-> Num(10 * i + j)]])

\* The solver and the inversion routines (matrix_dgesvx, matrix_dgesvd,
\* enkf_linalg_lowrankCinv, enkf_linalg_lowrankE, enkf_linalg_genX3) are
\* floating point library code: what they return is an input of the model,
\* either a failure, in the solver of linalg_solve_S (dgesvx) or in the
\* inversion routine, or the updated coefficient matrix W0, told by a tag.
InversionOutcomes ==
    {[ok |-> FALSE, tag |-> 0, at |-> a] : a \in {"dgesvx", "inversion"}}
    \cup {[ok |-> TRUE, tag |-> t, at |-> "none"] : t \in {0, 1}}

same_shape(M1, M2) == M1.rows = M2.rows /\ M1.cols = M2.cols

\* D - E_in, the stored perturbations not added
D_reconciled_without_E(Din, Ein, E) ==
    MatrixOf(Din.rows, Din.cols,
             [i \in 1..Din.rows |-> [j \in 1..Din.cols |->
                 Din.val[i][j] - Ein.val[i][j]]])

\* D - E_in + E, entry by entry
D_reconciled(Din, Ein, E) ==
    MatrixOf(Din.rows, Din.cols,
             [i \in 1..Din.rows |-> [j \in 1..Din.cols |->
                 Din.val[i][j] - Ein.val[i][j] + E.val[i][j]]])

-----------------------------------------------------------------------------
(* ies_initX__ and the two entry points *)

\* every entry of M is zero
matrix_is_zero(M) ==
    \A i \in 1..M.rows, j \in 1..M.cols : M.val[i][j] = 0

\* the step length is exactly v hundredths
steplength_is(ies_steplength, v) ==
    \/ ies_steplength.diff = 0 /\ ies_steplength.min = v
    \/ ies_steplength.num = 0 /\ ies_steplength.min + ies_steplength.diff = v

\* matrix_dgemm(W0, ., ., ., ., ies_steplength, 1.0 - ies_steplength):
\* W0 = (1 - steplength) * W0 + steplength * P.  The result is zero when both
\* terms are; what it is otherwise is an input of the model.
W0_updated(W0, product_is_zero, ies_steplength, outcome) ==
    IF /\ matrix_is_zero(W0) \/ steplength_is(ies_steplength, 100)
       /\ product_is_zero \/ steplength_is(ies_steplength, 0)
    THEN matrix_alloc(W0.rows, W0.cols)
    ELSE MatrixOf(W0.rows, W0.rows,
                  [i \in 1..W0.rows |-> [j \in 1..W0.rows |->
                      outcome.tag * (10 * i + j)]])

\* linalg_subspace_inversion: X1 and eig are filled by the branch of the
\* inversion tag; a tag of no branch leaves them as allocated, all zero, and
\* X3 = X1 * diag(eig) * X1' * H is zero then, as it is when H is zero
linalg_subspace_inversion(W0, ies_inversion, H_is_zero, ies_steplength, outcome) ==
    LET X3_is_zero ==
            \/ H_is_zero
            \/ ies_inversion \notin {IES_INVERSION_SUBSPACE_RE,
                                     IES_INVERSION_SUBSPACE_EE_R,
                                     IES_INVERSION_SUBSPACE_EXACT_R}
    IN  W0_updated(W0, X3_is_zero, ies_steplength, outcome)

\* linalg_exact_inversion: ZtStH = Z' * S' * H is zero when H is
linalg_exact_inversion(W0, H_is_zero, ies_steplength, outcome) ==
    W0_updated(W0, H_is_zero, ies_steplength, outcome)

\* the innovation as H = S * W0 + D - Y, which is not zero when D and W0 are
innovation_less_Y_is_zero(W0, D) == FALSE

\* the innovation H = S * W0 + D is zero when D and W0 are
innovation_is_zero(W0, D) == matrix_is_zero(W0) /\ matrix_is_zero(D)

\* ies_initX__: [err, data, X, W0, exit]; exit names the call it left at
ies_initX__(d, Y0, R, E, D, ies_inversion, ies_steplength, outcome) ==
    LET ens_size == matrix_get_columns(Y0)
        W0 == alloc_activeW(d)
        H_is_zero == innovation_is_zero(W0, D)
        failed(e, exit) == [err |-> e, data |-> d, X |-> NULL, W0 |-> NULL,
                            exit |-> exit]
    IN  IF matrix_get_columns(W0) # ens_size
        THEN failed("ShapeError", "solve_S")  \* linalg_solve_S: Y against W0
        ELSE IF ~same_shape(D, Y0)
        THEN failed("ShapeError", "assign_H") \* matrix_assign(H, D)
        ELSE IF ~outcome.ok /\ outcome.at = "dgesvx"
        THEN failed("NumericalError", "dgesvx")   \* matrix_dgesvx fails
        ELSE IF /\ ies_inversion = IES_INVERSION_SUBSPACE_EXACT_R
                /\ ~(R.rows = Y0.rows /\ R.cols = Y0.rows)
        THEN failed("ShapeError", "inversion") \* lowrankCinv(S, scaledR, ...)
        ELSE IF ~outcome.ok
        THEN failed("NumericalError", "inversion") \* the SVD fails
        ELSE LET W0new ==
                     IF ies_inversion # IES_INVERSION_EXACT
                     THEN linalg_subspace_inversion(W0, ies_inversion, H_is_zero,
                                                    ies_steplength, outcome)
                     ELSE linalg_exact_inversion(W0, H_is_zero,
                                                 ies_steplength, outcome)
             IN  [err |-> "none",
                  data |-> linalg_store_active_W(d, W0new),
                  \* X = I + W0 / sqrt(ens_size - 1): the entries of W0
                  \* scaled by nsc = 1/sqrt(ens_size - 1.0), and 1 added on
                  \* the diagonal
                  X |-> MatrixOf(ens_size, ens_size,
                            [i \in 1..ens_size |-> [j \in 1..ens_size |->
                                NumAdd(NumNorm([re |-> 0,
                                                sc |-> W0new.val[i][j],
                                                den |-> ens_size - 1]),
                                       Num(IF i = j THEN 1 ELSE 0))]]),
                  W0 |-> W0new, exit |-> "return"]

\* The matrices a call allocates and frees, in the order of the code, up to
\* the call it leaves at: a ledger is a sequence of <<"alloc", name>> and
\* <<"free", name>>
Allocated(names) == [i \in 1..Len(names) |-> <<"alloc", names[i]>>]
Freed(names) == [i \in 1..Len(names) |-> <<"free", names[i]>>]

\* how often a ledger has a matrix allocated, or freed
ledger_count(ledger, kind, name) ==
    Cardinality({i \in DOMAIN ledger : ledger[i] = <<kind, name>>})

\* ies_initX__ with linalg_compute_AA_projection, linalg_solve_S,
\* linalg_subspace_inversion and linalg_exact_inversion
ies_initX___ledger(exit, ies_inversion, projected) ==
    LET AA_projection ==
            Allocated(<<"AA.Ai", "AA.AAi", "AA.VT">>)
            \o Freed(<<"AA.Ai", "AA.AAi", "AA.VT">>)
        solve_S ==
            Allocated(<<"solve_S.YT", "solve_S.ST", "solve_S.Omega">>)
            \o (IF exit \in {"solve_S", "dgesvx"} THEN <<>>
                ELSE Freed(<<"solve_S.Omega", "solve_S.ST", "solve_S.YT">>))
        branch(names) ==
            Allocated(names)
            \o (IF exit = "inversion" THEN <<>> ELSE Freed(names))
        subspace_inversion ==
            Allocated(<<"subspace.X1">>)
            \o (IF ies_inversion = IES_INVERSION_SUBSPACE_RE
                THEN branch(<<"subspace.scaledE">>)
                ELSE IF ies_inversion = IES_INVERSION_SUBSPACE_EE_R
                THEN branch(<<"subspace.Et", "subspace.Cee">>)
                ELSE IF ies_inversion = IES_INVERSION_SUBSPACE_EXACT_R
                THEN branch(<<"subspace.scaledR">>)
                ELSE <<>>)
            \o (IF exit = "inversion" THEN <<>>
                ELSE Allocated(<<"subspace.X3">>)
                     \o Freed(<<"subspace.X3", "subspace.X1">>))
        exact_inversion ==
            Allocated(<<"exact.Z", "exact.ZtStH", "exact.StH", "exact.StS">>)
            \o (IF exit = "inversion" THEN <<>>
                ELSE Freed(<<"exact.Z", "exact.ZtStH", "exact.StH",
                             "exact.StS">>))
        head ==
            Allocated(<<"initX.Y", "initX.H", "initX.S">>)
            \o (IF projected THEN AA_projection ELSE <<>>)
            \o Allocated(<<"initX.W0">>)
            \o solve_S
    IN  IF exit \in {"solve_S", "dgesvx", "assign_H"}
        THEN head
        ELSE head
             \o Allocated(<<"initX.W">>)
             \o (IF ies_inversion # IES_INVERSION_EXACT
                 THEN subspace_inversion
                 ELSE exact_inversion)
             \o (IF exit = "inversion" THEN <<>>
                 ELSE Allocated(<<"initX.DW">>)
                      \o Freed(<<"initX.W0", "initX.W", "initX.DW",
                                 "initX.H", "initX.S", "initX.Y">>))

\* the ledger of an updateA with the projection of Y computed whenever it is
\* configured
updateA_local_matrices_always_projected(d, A_in, Yin, exit) ==
    LET ies_inversion == get_inversion(data_get_config(d))
        projected == get_aaprojection(data_get_config(d))
    IN  IF exit = "return"
        THEN Allocated(<<"Y", "R", "E", "D", "X">>)
             \o ies_initX___ledger("return", ies_inversion, projected)
             \o Allocated(<<"A0">>) \o Freed(<<"A0">>)
             \o Freed(<<"Y", "D", "E", "R", "X">>)
        ELSE Allocated(<<"Y", "R">>)

\* the ledger of an updateA on state d that left at exit: the projection of
\* Y is computed when it is configured and A has no more rows than
\* ens_size - 1
updateA_local_matrices(d, A_in, Yin, exit) ==
    LET ies_inversion == get_inversion(data_get_config(d))
        projected == /\ get_aaprojection(data_get_config(d))
                     /\ matrix_get_rows(A_in) <= matrix_get_columns(Yin) - 1
    IN  IF exit = "alloc_activeE"
        THEN Allocated(<<"Y", "R">>)
        ELSE IF exit \in {"inplace_sub", "inplace_add"}
        THEN Allocated(<<"Y", "R", "E", "D", "X">>)
        ELSE IF exit \in {"solve_S", "dgesvx", "assign_H", "inversion"}
        THEN Allocated(<<"Y", "R", "E", "D", "X">>)
             \o ies_initX___ledger(exit, ies_inversion, projected)
        ELSE Allocated(<<"Y", "R", "E", "D", "X">>)
             \o ies_initX___ledger("return", ies_inversion, projected)
             \o (IF exit = "alloc_activeA" THEN <<>>
                 ELSE Allocated(<<"A0">>)
                      \o (IF exit = "matmul" THEN <<>>
                          ELSE Freed(<<"A0">>)
                               \o Freed(<<"Y", "D", "E", "R", "X">>)))

\* the iteration number of the call: the one calculate_steplength is given
\* and ies_initX__ is passed; here taken before the increment
updateA_iteration_nr_before(d) == d.iteration_nr

\* the iteration number of the call: the one calculate_steplength is given
\* and ies_initX__ is passed
updateA_iteration_nr(d) == data_inc_iteration_nr(d).iteration_nr

\* the stores of updateA with A stored on every call
updateA_stored_A_every_call(d, A_in, Ein) ==
    [data_augment_initialE(
         data_store_initialE(
             data_update_state_size(data_inc_iteration_nr(d),
                                    matrix_get_rows(A_in)),
             Ein),
         Ein)
     EXCEPT !.A0 = A_in]

\* the stores of updateA with E built anew from E_in on every call
updateA_stored_E_every_call(d, A_in, Ein) ==
    data_store_initialA(
        data_store_initialE(
            [data_update_state_size(data_inc_iteration_nr(d),
                                    matrix_get_rows(A_in))
             EXCEPT !.E = NULL],
            Ein),
        A_in)

\* the state after the stores of updateA: iteration number, state size,
\* initial E, augmented E, initial A
updateA_stored(d, A_in, Ein) ==
    data_store_initialA(
        data_augment_initialE(
            data_store_initialE(
                data_update_state_size(data_inc_iteration_nr(d),
                                       matrix_get_rows(A_in)),
                Ein),
            Ein),
        A_in)

\* the local copies of updateA with D sharing the storage of Din
updateA_copies_D_shared(Yin, Rin, Din) ==
    [Y |-> Yin, R |-> Rin, D |-> Din, shared |-> {"Din"}]

\* the local copies of updateA (matrix_alloc_copy): shared names the caller's
\* matrices whose storage a local matrix uses, none
updateA_copies(Yin, Rin, Din) ==
    [Y |-> Yin, R |-> Rin, D |-> Din, shared |-> {}]

\* updateA leaving before A is written, with A cleared
updateA_left_A_cleared(e, dd, A_in, iteration_nr, ies_steplength, exit) ==
    [err |-> e, data |-> dd, exit |-> exit,
     A |-> MatrixOf(A_in.rows, A_in.cols,
                    [i \in 1..A_in.rows |-> [j \in 1..A_in.cols |-> Num(0)]]),
     W0 |-> NULL, X |-> NULL, iter |-> iteration_nr,
     steplength |-> ies_steplength, inputs |-> NULL, D |-> NULL]

\* updateA leaving before matrix_matmul(A, A0, X): the caller's A is as given
updateA_left(e, dd, A_in, iteration_nr, ies_steplength, exit) ==
    [err |-> e, data |-> dd, A |-> A_in, W0 |-> NULL, X |-> NULL, exit |-> exit,
     iter |-> iteration_nr, steplength |-> ies_steplength, inputs |-> NULL,
     D |-> NULL]

\* updateA: [err, data, A, W0, X, iter, steplength, inputs, D]; A is the matrix
\* the caller holds after the call, iter the number calculate_steplength is
\* called with, inputs the caller's other matrices after the call, D the
\* local D ies_initX__ was called with
updateA(d, A_in, Yin, Rin, Ein, Din, outcome, null_mask_read) ==
    LET ies_config == data_get_config(d)
        iteration_nr == updateA_iteration_nr(d)
        ies_steplength == calculate_steplength(ies_config, iteration_nr)
        d5 == updateA_stored(d, A_in, Ein)
        copies == updateA_copies(Yin, Rin, Din)
        E == alloc_activeE(d5)
        failed(e, dd, exit) ==
            updateA_left(e, dd, A_in, iteration_nr, ies_steplength, exit)
    IN  IF (d.ens_mask = NoMask \/ d.obs_mask = NoMask) /\ null_mask_read = "trap"
        THEN failed("Crash", d5, "alloc_activeE")  \* bool_vector_size(nullptr)
        ELSE IF ~alloc_active_in_range(d5.E, d5.obs_mask, d5.ens_mask)
        THEN failed("ShapeError", d5, "alloc_activeE") \* alloc_activeE(data)
        ELSE IF ~same_shape(copies.D, Ein)
        THEN failed("ShapeError", d5, "inplace_sub") \* matrix_inplace_sub(D, Ein)
        ELSE IF ~same_shape(copies.D, E)
        THEN failed("ShapeError", d5, "inplace_add") \* matrix_inplace_add(D, E)
        ELSE LET D == D_reconciled(copies.D, Ein, E)
                 r == ies_initX__(d5, copies.Y, copies.R, E, D,
                                  get_inversion(ies_config), ies_steplength,
                                  outcome)
             IN  IF r.err # "none"
                 THEN [failed(r.err, r.data, r.exit) EXCEPT !.D = D]
                 ELSE IF ~alloc_activeA_in_range(r.data)
                 THEN [failed("ShapeError", r.data, "alloc_activeA")
                       EXCEPT !.D = D]
                 ELSE IF \/ alloc_activeA(r.data).cols # r.X.rows
                         \/ alloc_activeA(r.data).rows # A_in.rows
                         \/ r.X.cols # A_in.cols
                 THEN [failed("ShapeError", r.data, "matmul")
                       EXCEPT !.D = D]             \* matrix_matmul(A, A0, X)
                 ELSE [err |-> "none", data |-> r.data, exit |-> "return",
                       A |-> matrix_matmul(alloc_activeA(r.data), r.X),
                       W0 |-> r.W0, X |-> r.X, iter |-> iteration_nr,
                       steplength |-> ies_steplength, D |-> D,
                       \* the caller's matrices after updateA has worked
                       \* in place on its local D
                       inputs |-> [Yin |-> Yin, Rin |-> Rin, Ein |-> Ein,
                                   Din |-> IF "Din" \in copies.shared
                                           THEN D ELSE Din]]

\* initX with a temporary state whose first realization is not active
initX_first_realization_inactive(ies_config, Y0, R, E, D, outcome) ==
    LET ens_size == matrix_get_columns(Y0)
        ens_mask == [i \in 1..ens_size |-> i # 1]
        obs_mask == [i \in 1..matrix_get_rows(Y0) |-> TRUE]
        d == data_allocateW(
                 data_update_ens_mask(update_obs_mask(data_alloc, obs_mask),
                                      ens_mask).data)
    IN  ies_initX__(d, Y0, R, E, D, get_inversion(ies_config),
                    [min |-> 100, diff |-> 0, num |-> 0, den |-> 1], outcome)

\* initX: [err, data, X, W0, exit] of ies_initX__ on a temporary state with
\* all-true masks, with no A, steplength = 1 and iteration_nr = 1; data is
\* the temporary state, freed before the return
initX(ies_config, Y0, R, E, D, outcome) ==
    LET ens_size == matrix_get_columns(Y0)
        obs_size == matrix_get_rows(Y0)
        ens_mask == [i \in 1..ens_size |-> TRUE]
        obs_mask == [i \in 1..obs_size |-> TRUE]
        d == data_allocateW(
                 data_update_ens_mask(update_obs_mask(data_alloc, obs_mask),
                                      ens_mask).data)
    IN  ies_initX__(d, Y0, R, E, D, get_inversion(ies_config),
                    [min |-> 100, diff |-> 0, num |-> 0, den |-> 1], outcome)

\* init_update writing the ensemble mask itself, unchecked
init_update_mask_unchecked(d, ens_mask, obs_mask) ==
    [err |-> "none",
     data |-> update_obs_mask(
                  store_initial_obs_mask(
                      data_allocateW([d EXCEPT !.ens_mask = ens_mask]), obs_mask),
                  obs_mask)]

\* init_update without the call of update_obs_mask
init_update_obs_mask_once(d, ens_mask, obs_mask) ==
    LET r == data_update_ens_mask(d, ens_mask)
    IN  IF r.err # "none"
        THEN [err |-> r.err, data |-> r.data]
        ELSE [err |-> "none",
              data |-> store_initial_obs_mask(data_allocateW(r.data), obs_mask)]

\* init_update allocating W on every call
init_update_W_allocated_again(d, ens_mask, obs_mask) ==
    LET r == data_update_ens_mask(d, ens_mask)
    IN  IF r.err # "none"
        THEN [err |-> r.err, data |-> r.data]
        ELSE [err |-> "none",
              data |-> update_obs_mask(
                           store_initial_obs_mask(
                               data_allocateW([r.data EXCEPT !.W = NULL]),
                               obs_mask),
                           obs_mask)]

\* init_update: [err, data]
init_update(d, ens_mask, obs_mask) ==
    LET r == data_update_ens_mask(d, ens_mask)
    IN  IF r.err # "none"
        THEN [err |-> r.err, data |-> r.data]
        ELSE [err |-> "none",
              data |-> update_obs_mask(
                           store_initial_obs_mask(data_allocateW(r.data), obs_mask),
                           obs_mask)]

-----------------------------------------------------------------------------
(* The accessors of the dispatch table *)

\* the result of a setter of the table: what the configuration setter
\* raised, the state, and the bool the setter returns
set_result(d, r, name_recognized) ==
    [err |-> r.err, data |-> [d EXCEPT !.config = r.config],
     name_recognized |-> name_recognized]

\* set_int that does not know the ITER key
set_int_without_ITER(d, var_name, value) ==
    LET config == data_get_config(d)
    IN  IF var_name = "ENKF_SUBSPACE_DIMENSION"
        THEN set_result(d, set_subspace_dimension(config, value), TRUE)
        ELSE IF var_name = "IES_INVERSION"
        THEN set_result(d, set_inversion(config, value), TRUE)
        ELSE [err |-> "none", data |-> d, name_recognized |-> FALSE]

\* set_int: [err, data, name_recognized]
set_int(d, var_name, value) ==
    LET config == data_get_config(d)
    IN  IF var_name = "ENKF_SUBSPACE_DIMENSION"
        THEN set_result(d, set_subspace_dimension(config, value), TRUE)
        ELSE IF var_name = "ITER"
        THEN [err |-> "none", data |-> data_set_iteration_nr(d, value),
              name_recognized |-> TRUE]
        ELSE IF var_name = "IES_INVERSION"
        THEN set_result(d, set_inversion(config, value), TRUE)
        ELSE [err |-> "none", data |-> d, name_recognized |-> FALSE]

\* get_int returning the integer of the truncation whatever it holds
get_int_any_truncation(d, var_name) ==
    LET ies_config == data_get_config(d)
    IN  IF var_name = "ITER"
        THEN data_get_iteration_nr(d)
        ELSE IF var_name = "ENKF_SUBSPACE_DIMENSION"
        THEN get_truncation(ies_config).value
        ELSE IF var_name = "IES_INVERSION"
        THEN get_inversion(ies_config)
        ELSE -1

get_int(d, var_name) ==
    LET ies_config == data_get_config(d)
    IN  IF var_name = "ITER"
        THEN data_get_iteration_nr(d)
        ELSE IF var_name = "ENKF_SUBSPACE_DIMENSION"
        THEN LET truncation == get_truncation(ies_config)
             IN  IF truncation.kind = "int" THEN truncation.value ELSE -1
        ELSE IF var_name = "IES_INVERSION"
        THEN get_inversion(ies_config)
        ELSE -1

\* set_double writing the decay itself, unchecked
set_double_dec_unchecked(d, var_name, value) ==
    LET ies_config == data_get_config(d)
    IN  IF var_name = "ENKF_TRUNCATION"
        THEN set_result(d, set_truncation(ies_config, value), TRUE)
        ELSE IF var_name = "IES_MAX_STEPLENGTH"
        THEN set_result(d, set_max_steplength(ies_config, value), TRUE)
        ELSE IF var_name = "IES_MIN_STEPLENGTH"
        THEN set_result(d, set_min_steplength(ies_config, value), TRUE)
        ELSE IF var_name = "IES_DEC_STEPLENGTH"
        THEN [err |-> "none", data |-> [d EXCEPT !.config.dec_steplength = value],
              name_recognized |-> TRUE]
        ELSE [err |-> "none", data |-> d, name_recognized |-> FALSE]

\* set_double: [err, data, name_recognized]
set_double(d, var_name, value) ==
    LET ies_config == data_get_config(d)
    IN  IF var_name = "ENKF_TRUNCATION"
        THEN set_result(d, set_truncation(ies_config, value), TRUE)
        ELSE IF var_name = "IES_MAX_STEPLENGTH"
        THEN set_result(d, set_max_steplength(ies_config, value), TRUE)
        ELSE IF var_name = "IES_MIN_STEPLENGTH"
        THEN set_result(d, set_min_steplength(ies_config, value), TRUE)
        ELSE IF var_name = "IES_DEC_STEPLENGTH"
        THEN set_result(d, set_dec_steplength(ies_config, value), TRUE)
        ELSE [err |-> "none", data |-> d, name_recognized |-> FALSE]

\* get_double; the -1 it returns is -100 hundredths
get_double(d, var_name) ==
    LET ies_config == data_get_config(d)
    IN  IF var_name = "ENKF_TRUNCATION"
        THEN LET truncation == get_truncation(ies_config)
             IN  IF truncation.kind = "double" THEN truncation.value ELSE -100
        ELSE IF var_name = "IES_MAX_STEPLENGTH"
        THEN get_max_steplength(ies_config)
        ELSE IF var_name = "IES_MIN_STEPLENGTH"
        THEN get_min_steplength(ies_config)
        ELSE IF var_name = "IES_DEC_STEPLENGTH"
        THEN get_dec_steplength(ies_config)
        ELSE -100

\* set_string: [err, data, name_recognized]
set_string(d, var_name, value) ==
    LET ies_config == data_get_config(d)
    IN  IF var_name = "IES_LOGFILE"
        THEN set_result(d, set_logfile(ies_config, value), TRUE)
        ELSE [err |-> "none", data |-> d, name_recognized |-> FALSE]

\* set_bool that does not know the IES_DEBUG key
set_bool_without_IES_DEBUG(d, var_name, value) ==
    LET ies_config == data_get_config(d)
    IN  IF var_name = "IES_AAPROJECTION"
        THEN set_result(d, set_aaprojection(ies_config, value), TRUE)
        ELSE [err |-> "none", data |-> d, name_recognized |-> FALSE]

\* set_bool: [err, data, name_recognized]; IES_DEBUG only logs a warning
set_bool(d, var_name, value) ==
    LET ies_config == data_get_config(d)
    IN  IF var_name = "IES_AAPROJECTION"
        THEN set_result(d, set_aaprojection(ies_config, value), TRUE)
        ELSE IF var_name = "IES_DEBUG"
        THEN [err |-> "none", data |-> d, name_recognized |-> TRUE]
        ELSE [err |-> "none", data |-> d, name_recognized |-> FALSE]

\* has_var: the chain of comparisons, in its order
has_var(d, var_name) ==
    IF var_name = "ITER" THEN TRUE
    ELSE IF var_name = "IES_MAX_STEPLENGTH" THEN TRUE
    ELSE IF var_name = "IES_MIN_STEPLENGTH" THEN TRUE
    ELSE IF var_name = "IES_DEC_STEPLENGTH" THEN TRUE
    ELSE IF var_name = "IES_INVERSION" THEN TRUE
    ELSE IF var_name = "IES_LOGFILE" THEN TRUE
    ELSE IF var_name = "IES_DEBUG" THEN TRUE
    ELSE IF var_name = "IES_AAPROJECTION" THEN TRUE
    ELSE IF var_name = "ENKF_TRUNCATION" THEN TRUE
    ELSE IF var_name = "ENKF_SUBSPACE_DIMENSION" THEN TRUE
    ELSE FALSE


-----------------------------------------------------------------------------
(* The driver: one state object, init_update and updateA in any order once *)
(* init_update has been called.  env says what the driver of a run does:   *)
(*   ens_shrinks  it passes any ensemble mask with MinActive realizations  *)
(*                (otherwise always the full mask)                         *)
(*   obs_changes  it passes any observation mask with an active            *)
(*                observation (otherwise always the full mask)             *)
(*   etags        the perturbation matrices E_in it passes                 *)
(*   outcomes     what the solver and the inversion do in its runs         *)
(*   bad_calls    it also passes an ensemble mask of another size and a    *)
(*                D_in with one row more than E_in                         *)
(*   early        it also calls updateA before any init_update             *)
(*   din_zero     it also passes a D_in that is all zero                   *)
(*   few_values   it calls a numeric setter with one value for each key,    *)
(*                the largest of those it has for the key                  *)
(*   int_keys, double_keys, string_keys, bool_keys                         *)
(*                the keys it calls set_int, set_double, set_string and    *)
(*                set_bool with                                            *)

FullMask(n) == [i \in 1..n |-> TRUE]

EnsMaskInputs(d) ==
    (IF env.ens_shrinks
     THEN {mask \in Masks(EnsSize) : bool_vector_count_equal(mask, TRUE) >= MinActive}
     ELSE {FullMask(EnsSize)})
    \cup (IF env.bad_calls /\ d.ens_mask # NoMask
          THEN {FullMask(EnsSize + 1)} ELSE {})

ObsMaskInputs ==
    IF env.obs_changes
    THEN {mask \in Masks(ObsSize) : bool_vector_count_equal(mask, TRUE) >= 1}
    ELSE {FullMask(ObsSize)}

\* the rows of Yin, Rin and Ein and the columns of Yin and the matrices that
\* go with it, for a driver that gets the shapes right and one that does not
DriverShapes(n) == IF env.bad_shapes THEN {n, n + 1} ELSE {n}

DinInputs(nrobs, ens_size) ==
    {Din_of(drows, ens_size) :
        drows \in IF env.bad_calls \/ env.bad_shapes
                  THEN {nrobs, nrobs + 1} ELSE {nrobs}}
    \cup (IF env.din_zero THEN {matrix_alloc(nrobs, ens_size)} ELSE {})

\* the values of a numeric setter the driver uses
DriverValues(values) ==
    IF env.few_values THEN {v \in values : \A w \in values : w <= v} ELSE values

\* the columns of the driver's A for the active realizations
A_active(full_A, ens_mask) ==
    alloc_active(full_A, FullMask(full_A.rows), ens_mask)

\* call: the last call (op), how it ended (err), the updateA calls so far
\* (updates), the iteration number the last updateA ran with (iter), the
\* coefficients it computed (W0), the E_in it was given (Ein), the
\* observation masks the first and the last init_update were given, the
\* ensemble mask the last init_update was given, the step length and the X
\* of the last updateA, whether its D_in was zero, whether it left the
\* caller's Yin, Rin, Ein and Din as they were, the step length of the
\* updateA before if no setter was called since (steplength_before) and
\* whatever was called since (steplength_last), the key and value of the
\* last setter call with the bool it returned, and the truncation the last
\* accepted set_double(ENKF_TRUNCATION) or set_int(ENKF_SUBSPACE_DIMENSION)
\* was given, the matrices the last updateA allocated and freed, whether
\* the matrices it was given fitted the masks and each other, and the D_in
\* it was given with the D it called ies_initX__ with and whether the state
\* held no E before (D)
NoCall ==
    [op |-> "alloc", err |-> "none", updates |-> 0, iter |-> 0,
     W0 |-> NULL, Ein |-> NULL, obs_first |-> NoMask, obs_last |-> NoMask,
     ens_last |-> NoMask, steplength |-> NULL, X |-> NULL, din_zero |-> FALSE,
     inputs_kept |-> TRUE, steplength_before |-> NULL,
     steplength_last |-> NULL, steplength_used |-> NULL, set |-> NULL,
     truncation_set |-> NULL, ledger |-> <<>>, shapes_fit |-> TRUE,
     D |-> NULL]

NoSlice ==
    [pc |-> "off", M |-> NULL, row_mask |-> NoMask, column_mask |-> NoMask,
     out |-> NULL]

\* a freshly allocated state and the driver's initial parameters
InitState ==
    /\ data = data_alloc
    /\ A = A_of(StateRows, EnsSize)
    /\ call = NoCall
    /\ sl = NoSlice
    /\ th = NULL
    /\ gdc = NULL
    /\ meas = NULL

InitUpdate ==
    /\ call.err # "Crash"
    /\ \E ens_mask \in EnsMaskInputs(data), obs_mask \in ObsMaskInputs :
           LET r == init_update(data, ens_mask, obs_mask)
           IN  /\ data' = r.data
               /\ call' = [call EXCEPT
                              !.op = "init_update", !.err = r.err,
                              !.W0 = NULL, !.Ein = NULL, !.X = NULL,
                              !.din_zero = FALSE, !.set = NULL,
                              !.ledger = <<>>, !.shapes_fit = TRUE,
                              !.D = NULL,
                              !.obs_first = IF call.obs_first = NoMask
                                            THEN obs_mask ELSE call.obs_first,
                              !.obs_last = obs_mask,
                              !.ens_last = ens_mask]
    /\ UNCHANGED <<A, sl, env, th, gdc, meas>>

UpdateA ==
    /\ call.err # "Crash"
    /\ data.ens_mask # NoMask \/ env.early
    /\ call.updates < MaxIter
    \* the realizations and the observations the driver has data for
    /\ LET ens_mask == IF data.ens_mask = NoMask THEN FullMask(EnsSize)
                       ELSE data.ens_mask
           obs_mask == IF data.obs_mask = NoMask THEN FullMask(ObsSize)
                       ELSE data.obs_mask
           ens_size == bool_vector_count_equal(ens_mask, TRUE)
           nrobs == bool_vector_count_equal(obs_mask, TRUE)
       IN  \E etag \in env.etags, columns \in DriverShapes(ens_size) :
           \E Din \in DinInputs(nrobs, columns),
              Yin_rows \in DriverShapes(nrobs), Rin_rows \in DriverShapes(nrobs),
              Ein_rows \in DriverShapes(nrobs),
              outcome \in env.outcomes,
              \* the read of a mask that is not set traps, or finds no
              \* entries
              null_mask_read \in (IF data.ens_mask = NoMask
                                  THEN {"trap", "empty"} ELSE {"trap"}) :
               LET Yin == Yin_of(Yin_rows, columns)
                   Rin == Rin_of(Rin_rows)
                   Ein == Ein_of(etag, Ein_rows, columns)
                   r == updateA(data, A_active(A, ens_mask), Yin, Rin, Ein,
                                Din, outcome, null_mask_read)
               IN  /\ data' = r.data
                   \* the driver's A with the columns of the active
                   \* realizations replaced
                   /\ A' = [A EXCEPT
                               !.val = [i \in 1..A.rows |-> [iens \in 1..A.cols |->
                                   IF iens <= Len(ens_mask) /\ ens_mask[iens]
                                   THEN matrix_iget(r.A, i,
                                                    active_rank(ens_mask, iens))
                                   ELSE A.val[i][iens]]]]
                   /\ call' = [call EXCEPT
                                  !.op = "updateA", !.err = r.err,
                                  !.updates = call.updates + 1, !.iter = r.iter,
                                  !.W0 = r.W0, !.Ein = Ein, !.X = r.X,
                                  !.ens_last = NoMask, !.set = NULL,
                                  !.steplength = r.steplength,
                                  !.steplength_before = call.steplength,
                                  !.steplength_last = call.steplength_used,
                                  !.steplength_used = r.steplength,
                                  !.din_zero = matrix_is_zero(Din),
                                  !.D = IF r.D = NULL THEN NULL
                                        ELSE [Din |-> Din, handed |-> r.D,
                                              first |-> data.E = NULL],
                                  !.shapes_fit =
                                      /\ matrix_get_columns(Yin) = ens_size
                                      /\ matrix_get_rows(Yin) = nrobs
                                      /\ same_shape(Ein, Yin)
                                      /\ same_shape(Din, Yin)
                                      /\ matrix_get_rows(Rin) = nrobs
                                      /\ matrix_get_columns(Rin) = nrobs,
                                  !.ledger = updateA_local_matrices(
                                                 data, A_active(A, ens_mask),
                                                 Yin, r.exit),
                                  !.inputs_kept =
                                      (r.err = "none") =>
                                          r.inputs = [Yin |-> Yin, Rin |-> Rin,
                                                      Ein |-> Ein, Din |-> Din]]
    /\ UNCHANGED <<sl, env, th, gdc, meas>>

\* a setter call: the state it leaves and what is kept of the call
SetCall(op, r, var_name, value) ==
    /\ data' = r.data
    /\ call' = [call EXCEPT
                   !.op = op, !.err = r.err,
                   !.W0 = NULL, !.Ein = NULL, !.X = NULL, !.din_zero = FALSE,
                   !.ledger = <<>>, !.shapes_fit = TRUE, !.D = NULL,
                   !.ens_last = NoMask, !.steplength = NULL,
                   !.steplength_before = NULL,
                   !.set = [var_name |-> var_name, value |-> value,
                            name_recognized |-> r.name_recognized],
                   !.truncation_set =
                       IF r.err # "none" THEN call.truncation_set
                       ELSE IF op = "set_double" /\ var_name = "ENKF_TRUNCATION"
                       THEN [kind |-> "double", value |-> value]
                       ELSE IF op = "set_int" /\ var_name = "ENKF_SUBSPACE_DIMENSION"
                       THEN [kind |-> "int", value |-> value]
                       ELSE call.truncation_set]
    /\ UNCHANGED <<A, sl, env, th, gdc, meas>>

\* the values the driver calls set_int with
SetInt ==
    /\ call.err # "Crash"
    /\ \E var_name \in env.int_keys :
       \E value \in DriverValues(
                        IF var_name = "ENKF_SUBSPACE_DIMENSION" THEN {0, 1, 5}
                        ELSE IF var_name = "ITER" THEN {-1, 0, 2}
                        ELSE IF var_name = "IES_INVERSION" THEN {0, 1, 2, 3, 7}
                        ELSE {1}) :
           SetCall("set_int", set_int(data, var_name, value), var_name, value)

\* the values the driver calls set_double with, in hundredths
SetDouble ==
    /\ call.err # "Crash"
    /\ \E var_name \in env.double_keys :
       \E value \in DriverValues(
                        IF var_name = "ENKF_TRUNCATION" THEN {0, 97, 100, 150}
                        ELSE IF var_name = "IES_MAX_STEPLENGTH" THEN {20, 60, 100}
                        ELSE IF var_name = "IES_MIN_STEPLENGTH" THEN {0, 30, 80}
                        ELSE IF var_name = "IES_DEC_STEPLENGTH"
                        THEN {100, 200, 250}
                        ELSE {100}) :
           SetCall("set_double", set_double(data, var_name, value), var_name, value)

SetString ==
    /\ call.err # "Crash"
    /\ \E var_name \in env.string_keys :
       \E value \in {"", "ies.log"} :
           SetCall("set_string", set_string(data, var_name, value), var_name, value)

SetBool ==
    /\ call.err # "Crash"
    /\ \E var_name \in env.bool_keys :
       \E value \in BOOLEAN :
           SetCall("set_bool", set_bool(data, var_name, value), var_name, value)

Next == InitUpdate \/ UpdateA

\* a driver that loses realizations, meets failures and makes bad calls, with
\* all observations active
Init ==
    /\ InitState
    /\ env = [ens_shrinks |-> TRUE, obs_changes |-> FALSE, etags |-> {1, 2},
              outcomes |-> InversionOutcomes, bad_calls |-> TRUE,
              early |-> FALSE, din_zero |-> FALSE, bad_shapes |-> FALSE,
              few_values |-> FALSE,
              string_keys |-> {}, bool_keys |-> {},
              int_keys |-> {}, double_keys |-> {}]

Spec == Init /\ [][Next]_vars

\* a driver that keeps all realizations and whose active observations change
\* between iterations
InitObs ==
    /\ InitState
    /\ env = [ens_shrinks |-> FALSE, obs_changes |-> TRUE, etags |-> {1, 2},
              outcomes |-> {[ok |-> TRUE, tag |-> 1, at |-> "none"]}, bad_calls |-> FALSE,
              early |-> FALSE, din_zero |-> FALSE, bad_shapes |-> FALSE,
              few_values |-> FALSE,
              string_keys |-> {}, bool_keys |-> {},
              int_keys |-> {}, double_keys |-> {}]

SpecObs == InitObs /\ [][Next]_vars

\* a driver that sets the truncation and the step-length parameters
InitConfig ==
    /\ InitState
    /\ env = [ens_shrinks |-> FALSE, obs_changes |-> FALSE, etags |-> {1},
              outcomes |-> {[ok |-> TRUE, tag |-> 1, at |-> "none"]}, bad_calls |-> FALSE,
              early |-> FALSE, din_zero |-> FALSE, bad_shapes |-> FALSE,
              few_values |-> FALSE,
              string_keys |-> {}, bool_keys |-> {},
              int_keys |-> {"ENKF_SUBSPACE_DIMENSION", "NO_SUCH_KEY"},
              double_keys |-> {"ENKF_TRUNCATION", "IES_MAX_STEPLENGTH",
                               "IES_MIN_STEPLENGTH", "IES_DEC_STEPLENGTH",
                               "NO_SUCH_KEY"}]

SpecConfig == InitConfig /\ [][SetInt \/ SetDouble]_vars

\* a driver that hands every setter every key of the module and one the
\* module does not have
InitKeys ==
    LET keys == {"ENKF_SUBSPACE_DIMENSION", "ENKF_TRUNCATION",
                 "IES_MAX_STEPLENGTH", "IES_MIN_STEPLENGTH",
                 "IES_DEC_STEPLENGTH", "ITER", "IES_DEBUG", "IES_INVERSION",
                 "IES_LOGFILE", "IES_AAPROJECTION", "NO_SUCH_KEY"}
    IN  /\ InitState
        /\ env = [ens_shrinks |-> FALSE, obs_changes |-> FALSE, etags |-> {1},
                  outcomes |-> {[ok |-> TRUE, tag |-> 1, at |-> "none"]},
                  bad_calls |-> FALSE, early |-> FALSE, din_zero |-> FALSE,
                  bad_shapes |-> FALSE, few_values |-> TRUE,
                  string_keys |-> keys, bool_keys |-> keys,
                  int_keys |-> keys, double_keys |-> keys]

SpecKeys == InitKeys /\ [][SetInt \/ SetDouble \/ SetString \/ SetBool]_vars

\* a driver that sets the iteration number and the maximal step length
\* between its calls of init_update and updateA
InitIter ==
    /\ InitState
    /\ env = [ens_shrinks |-> FALSE, obs_changes |-> FALSE, etags |-> {1},
              outcomes |-> {[ok |-> TRUE, tag |-> 1, at |-> "none"]}, bad_calls |-> FALSE,
              early |-> FALSE, din_zero |-> FALSE, bad_shapes |-> FALSE,
              few_values |-> FALSE,
              string_keys |-> {}, bool_keys |-> {},
              int_keys |-> {"ITER"},
              double_keys |-> {"IES_MAX_STEPLENGTH"}]

SpecIter == InitIter /\ [][SetInt \/ SetDouble \/ InitUpdate \/ UpdateA]_vars

\* a driver that sets the inversion, that may call updateA before
\* init_update, and whose D_in may be zero
InitMode ==
    /\ InitState
    /\ env = [ens_shrinks |-> FALSE, obs_changes |-> FALSE, etags |-> {1},
              outcomes |-> InversionOutcomes, bad_calls |-> FALSE,
              early |-> TRUE, din_zero |-> TRUE, bad_shapes |-> FALSE,
              few_values |-> FALSE,
              string_keys |-> {}, bool_keys |-> {},
              int_keys |-> {"IES_INVERSION"},
              double_keys |-> {"IES_MAX_STEPLENGTH"}]

SpecMode == InitMode /\ [][SetInt \/ SetDouble \/ InitUpdate \/ UpdateA]_vars

\* initX called with the configuration of the state, which the driver sets
\* between the calls: sl keeps the arguments and the result of the last call
InitX ==
    \E columns \in MinActive..EnsSize, rows \in {ObsSize} :
    \E etag \in env.etags, D \in DinInputs(rows, columns),
       outcome \in env.outcomes :
        LET Y0 == Yin_of(rows, columns)
            R == Rin_of(rows)
            E == Ein_of(etag, rows, columns)
            ies_config == data_get_config(data)
        IN  /\ sl' = [pc |-> "initX", ies_config |-> ies_config, Y0 |-> Y0,
                      R |-> R, E |-> E, D |-> D, outcome |-> outcome,
                      out |-> initX(ies_config, Y0, R, E, D, outcome)]
            /\ UNCHANGED <<data, A, call, env, th, gdc, meas>>

SpecInitX == InitMode /\ [][SetInt \/ SetDouble \/ InitX]_vars

\* a driver that hands updateA matrices of shapes that do not fit the masks
\* or each other, under every inversion tag
InitShapes ==
    /\ InitState
    /\ env = [ens_shrinks |-> FALSE, obs_changes |-> FALSE, etags |-> {1},
              outcomes |-> {[ok |-> TRUE, tag |-> 1, at |-> "none"]},
              bad_calls |-> FALSE, early |-> FALSE, din_zero |-> FALSE,
              bad_shapes |-> TRUE,
              few_values |-> FALSE,
              string_keys |-> {}, bool_keys |-> {},
              int_keys |-> {"IES_INVERSION"}, double_keys |-> {}]

SpecShapes == InitShapes /\ [][SetInt \/ InitUpdate \/ UpdateA]_vars

\* a driver that loses realizations and switches the projection of Y on and
\* off between its calls
InitProjection ==
    /\ InitState
    /\ env = [ens_shrinks |-> TRUE, obs_changes |-> FALSE, etags |-> {1},
              outcomes |-> {[ok |-> TRUE, tag |-> 1, at |-> "none"]},
              bad_calls |-> FALSE, early |-> FALSE, din_zero |-> FALSE,
              bad_shapes |-> FALSE, few_values |-> FALSE,
              string_keys |-> {}, bool_keys |-> {"IES_AAPROJECTION"},
              int_keys |-> {}, double_keys |-> {}]

SpecProjection == InitProjection /\ [][SetBool \/ InitUpdate \/ UpdateA]_vars

-----------------------------------------------------------------------------
(* The active-slice functions on their own: every matrix over SliceVals    *)
(* and every pair of masks of its size                                     *)

SliceVals == {0, 1}

InitSlice ==
    /\ data = data_alloc
    /\ A = NULL
    /\ call = NoCall
    /\ env = NULL
    /\ th = NULL
    /\ gdc = NULL
    /\ meas = NULL
    /\ \E M \in UNION {{[rows |-> r, cols |-> c, val |-> v] :
                          v \in [1..r -> [1..c -> SliceVals]]} :
                      <<r, c>> \in (1..SliceSize) \X (1..SliceSize)} :
       \E row_mask \in Masks(M.rows), column_mask \in Masks(M.cols) :
           sl = [pc |-> "in", M |-> M, row_mask |-> row_mask,
                 column_mask |-> column_mask, out |-> NULL]

\* alloc_active(M, row_mask, column_mask)
SliceActive ==
    /\ sl.pc = "in"
    /\ sl' = [sl EXCEPT !.pc = "active",
                        !.out = alloc_active(sl.M, sl.row_mask, sl.column_mask)]
    /\ UNCHANGED <<data, A, call, env, th, gdc, meas>>

\* alloc_activeW, then linalg_store_active_W of what it returned
SliceRoundTrip ==
    /\ sl.pc = "in"
    /\ sl.M.rows = sl.M.cols
    /\ sl.row_mask = sl.column_mask
    \* a state whose W is M and whose ens_mask is the row mask
    /\ LET SliceState == [data_alloc EXCEPT !.W = sl.M,
                                            !.ens_mask = sl.row_mask]
       IN  sl' = [sl EXCEPT
                     !.pc = "roundtrip",
                     !.out = linalg_store_active_W(SliceState,
                                                   alloc_activeW(SliceState)).W]
    /\ UNCHANGED <<data, A, call, env, th, gdc, meas>>

SpecSlice == InitSlice /\ [][SliceActive \/ SliceRoundTrip]_vars

-----------------------------------------------------------------------------
(* What linalg_subspace_inversion hands to the low-rank routines, on its    *)
(* own: every E over SliceVals for every number of realizations and of     *)
(* observations, under each of the three subspace inversions               *)

\* matrix_alloc_matmul(E, matrix_alloc_transpose(E))
matrix_E_Et(E) ==
    LET RECURSIVE dot(_, _, _)
        dot(i, j, k) == IF k = 0 THEN 0
                        ELSE E.val[i][k] * E.val[j][k] + dot(i, j, k - 1)
    IN  MatrixOf(E.rows, E.rows,
                 [i \in 1..E.rows |-> [j \in 1..E.rows |-> dot(i, j, E.cols)]])

\* linalg_subspace_inversion with R scaled by 1 / ((ens_size - 1) * (ens_size - 1))
subspace_lowrank_R_scaled_as_Cee(ies_inversion, E, R, ens_size) ==
    IF ies_inversion = IES_INVERSION_SUBSPACE_RE
    THEN [routine |-> "lowrankE", M |-> E, root |-> TRUE, den |-> ens_size - 1]
    ELSE IF ies_inversion = IES_INVERSION_SUBSPACE_EE_R
    THEN [routine |-> "lowrankCinv", M |-> matrix_E_Et(E), root |-> FALSE,
          den |-> (ens_size - 1) * (ens_size - 1)]
    ELSE IF ies_inversion = IES_INVERSION_SUBSPACE_EXACT_R
    THEN [routine |-> "lowrankCinv", M |-> R, root |-> FALSE,
          den |-> (ens_size - 1) * (ens_size - 1)]
    ELSE [routine |-> "none", M |-> NULL, root |-> FALSE, den |-> 1]

\* the branches of linalg_subspace_inversion: the routine called and the
\* matrix it is handed, as M scaled by 1/den, or by 1/sqrt(den) when root
\* (nsc = 1/sqrt(ens_size - 1.0), so nsc * nsc is 1/(ens_size - 1))
subspace_lowrank(ies_inversion, E, R, ens_size) ==
    IF ies_inversion = IES_INVERSION_SUBSPACE_RE
    THEN [routine |-> "lowrankE", M |-> E, root |-> TRUE, den |-> ens_size - 1]
    ELSE IF ies_inversion = IES_INVERSION_SUBSPACE_EE_R
    THEN [routine |-> "lowrankCinv", M |-> matrix_E_Et(E), root |-> FALSE,
          den |-> (ens_size - 1) * (ens_size - 1)]
    ELSE IF ies_inversion = IES_INVERSION_SUBSPACE_EXACT_R
    THEN [routine |-> "lowrankCinv", M |-> R, root |-> FALSE,
          den |-> ens_size - 1]
    ELSE [routine |-> "none", M |-> NULL, root |-> FALSE, den |-> 1]

InitLowrank ==
    /\ data = data_alloc
    /\ A = NULL
    /\ call = NoCall
    /\ env = NULL
    /\ th = NULL
    /\ gdc = NULL
    /\ meas = NULL
    /\ \E ens_size \in MinActive..EnsSize, nrobs \in 1..ObsSize :
       \E E \in {[rows |-> nrobs, cols |-> ens_size, val |-> v] :
                    v \in [1..nrobs -> [1..ens_size -> SliceVals]]},
          ies_inversion \in {IES_INVERSION_SUBSPACE_EXACT_R,
                             IES_INVERSION_SUBSPACE_EE_R,
                             IES_INVERSION_SUBSPACE_RE} :
           sl = [pc |-> "in", ies_inversion |-> ies_inversion, E |-> E,
                 R |-> Rin_of(nrobs), ens_size |-> ens_size, out |-> NULL]

\* the branch of linalg_subspace_inversion up to the call of the routine
SubspaceLowrank ==
    /\ sl.pc = "in"
    /\ sl' = [sl EXCEPT !.pc = "lowrank",
                        !.out = subspace_lowrank(sl.ies_inversion, sl.E, sl.R,
                                                 sl.ens_size)]
    /\ UNCHANGED <<data, A, call, env, th, gdc, meas>>

SpecLowrank == InitLowrank /\ [][SubspaceLowrank]_vars

-----------------------------------------------------------------------------
(* Two state objects, each used by one thread: the calls of a thread are   *)
(* taken statement group by statement group, and the groups of the two     *)
(* threads interleave.  The threads share the logger and nothing else.     *)

Threads == {1, 2}

ThreadCalls == 2

\* the local X of updateA kept in one place for all threads
X_of_all_threads(t) == 1

\* matrix_type *X = matrix_alloc(ens_size, ens_size): each call has its own
X_of_thread(t) == t

\* each thread has a freshly allocated state and an A of its own
InitThreads ==
    /\ data = data_alloc
    /\ A = NULL
    /\ call = NoCall
    /\ sl = NoSlice
    /\ gdc = NULL
    /\ meas = NULL
    /\ env = [ens_shrinks |-> FALSE, obs_changes |-> FALSE, etags |-> {1},
              outcomes |-> {o \in InversionOutcomes : o.at # "inversion"},
              bad_calls |-> FALSE, early |-> FALSE, din_zero |-> FALSE,
              bad_shapes |-> FALSE,
              few_values |-> FALSE,
              string_keys |-> {}, bool_keys |-> {},
              int_keys |-> {}, double_keys |-> {}]
    /\ th = [obj |-> [t \in Threads |->
                         [data |-> data_alloc, A |-> A_of(StateRows, EnsSize),
                          pc |-> "idle", calls |-> 0, err |-> "none",
                          args |-> NULL, iteration_nr |-> 0,
                          ies_steplength |-> NULL, D |-> NULL,
                          alone |-> NULL]],
             X |-> [t \in Threads |-> NULL],
             log |-> {}, overlapped |-> FALSE]

\* a step of thread t on its object
ThreadStep(t, obj) ==
    /\ th' = [th EXCEPT !.obj[t] = obj]
    /\ UNCHANGED <<data, A, call, sl, env, gdc, meas>>

\* init_update enters: the masks are the arguments of the call
ThInitUpdate ==
    \E t \in Threads :
        LET o == th.obj[t]
        IN  /\ o.pc = "idle"
            /\ o.data.ens_mask = NoMask
            /\ \E ens_mask \in EnsMaskInputs(o.data), obs_mask \in ObsMaskInputs :
                   ThreadStep(t, [o EXCEPT
                       !.pc = "init_update",
                       !.args = [ens_mask |-> ens_mask, obs_mask |-> obs_mask],
                       !.alone = [data |-> init_update(o.data, ens_mask, obs_mask).data,
                                  A |-> o.A,
                                  err |-> init_update(o.data, ens_mask, obs_mask).err]])

\* data_update_ens_mask and data_allocateW
ThInitUpdateEnsMask ==
    \E t \in Threads :
        LET o == th.obj[t]
            r == data_update_ens_mask(o.data, o.args.ens_mask)
        IN  /\ o.pc = "init_update"
            /\ ThreadStep(t, [o EXCEPT
                   !.pc = IF r.err = "none" THEN "init_update_obs" ELSE "idle",
                   !.err = r.err,
                   !.data = IF r.err = "none" THEN data_allocateW(r.data)
                            ELSE r.data])

\* store_initial_obs_mask and update_obs_mask
ThInitUpdateObsMask ==
    \E t \in Threads :
        LET o == th.obj[t]
        IN  /\ o.pc = "init_update_obs"
            /\ ThreadStep(t, [o EXCEPT
                   !.pc = "idle",
                   !.data = update_obs_mask(
                                store_initial_obs_mask(o.data, o.args.obs_mask),
                                o.args.obs_mask)])

\* updateA enters, while the other thread is or is not inside a call
ThUpdateA ==
    \E t \in Threads :
        LET o == th.obj[t]
            ens_size == bool_vector_count_equal(o.data.ens_mask, TRUE)
            nrobs == bool_vector_count_equal(o.data.obs_mask, TRUE)
        IN  /\ o.pc = "idle"
            /\ o.data.ens_mask # NoMask
            /\ o.calls < ThreadCalls
            /\ \E etag \in env.etags, outcome \in env.outcomes :
                   LET args == [Yin |-> Yin_of(nrobs, ens_size),
                                Rin |-> Rin_of(nrobs),
                                Ein |-> Ein_of(etag, nrobs, ens_size),
                                Din |-> Din_of(nrobs, ens_size),
                                outcome |-> outcome]
                       r == updateA(o.data, o.A, args.Yin, args.Rin, args.Ein,
                                    args.Din, outcome, "trap")
                   IN  th' = [th EXCEPT
                                 !.obj[t] = [o EXCEPT
                                     !.pc = "updateA", !.args = args,
                                     !.calls = o.calls + 1,
                                     !.alone = [data |-> r.data, A |-> r.A,
                                                err |-> r.err]],
                                 !.overlapped =
                                     \/ th.overlapped
                                     \/ \E u \in Threads \ {t} :
                                            th.obj[u].pc \notin {"idle", "init_update",
                                                                 "init_update_obs"}]
            /\ UNCHANGED <<data, A, call, sl, env, gdc, meas>>

\* the iteration number, the step length and the stores of updateA
ThUpdateAStores ==
    \E t \in Threads :
        LET o == th.obj[t]
        IN  /\ o.pc = "updateA"
            /\ ThreadStep(t, [o EXCEPT
                   !.pc = "copies",
                   !.iteration_nr = updateA_iteration_nr(o.data),
                   !.ies_steplength =
                       calculate_steplength(data_get_config(o.data),
                                            updateA_iteration_nr(o.data)),
                   !.data = updateA_stored(o.data, o.A, o.args.Ein)])

\* the local copies, and D = D - Ein + E
ThUpdateACopies ==
    \E t \in Threads :
        LET o == th.obj[t]
            copies == updateA_copies(o.args.Yin, o.args.Rin, o.args.Din)
            E == alloc_activeE(o.data)
            shapes == /\ alloc_active_in_range(o.data.E, o.data.obs_mask,
                                               o.data.ens_mask)
                      /\ same_shape(copies.D, o.args.Ein)
                      /\ same_shape(copies.D, E)
        IN  /\ o.pc = "copies"
            /\ ThreadStep(t, [o EXCEPT
                   !.pc = IF shapes THEN "initX" ELSE "idle",
                   !.err = IF shapes THEN "none" ELSE "ShapeError",
                   !.D = IF shapes THEN D_reconciled(copies.D, o.args.Ein, E)
                         ELSE NULL])

\* ies_initX__, which stores W in the state and fills the local X
ThUpdateAInitX ==
    \E t \in Threads :
        LET o == th.obj[t]
            r == ies_initX__(o.data, o.args.Yin, o.args.Rin,
                             alloc_activeE(o.data), o.D,
                             get_inversion(data_get_config(o.data)),
                             o.ies_steplength, o.args.outcome)
        IN  /\ o.pc = "initX"
            /\ th' = [th EXCEPT
                         !.obj[t] = [o EXCEPT
                             !.pc = IF r.err = "none" THEN "log" ELSE "idle",
                             !.err = r.err, !.data = r.data, !.D = NULL],
                         !.X[X_of_thread(t)] = r.X]
            /\ UNCHANGED <<data, A, call, sl, env, gdc, meas>>

\* logger->info("IES  iter:{} cost function: {}", ...) on the shared logger
ThUpdateALog ==
    \E t \in Threads :
        LET o == th.obj[t]
        IN  /\ o.pc = "log"
            /\ th' = [th EXCEPT
                         !.obj[t] = [o EXCEPT !.pc = "matmul"],
                         !.log = th.log \cup {[object |-> t,
                                               iter |-> o.iteration_nr]}]
            /\ UNCHANGED <<data, A, call, sl, env, gdc, meas>>

\* matrix_matmul(A, A0, X), the frees, and the return
ThUpdateAMatmul ==
    \E t \in Threads :
        LET o == th.obj[t]
            A0 == alloc_activeA(o.data)
            X == th.X[X_of_thread(t)]
            shapes == /\ alloc_activeA_in_range(o.data)
                      /\ X # NULL
                      /\ A0.cols = X.rows /\ A0.rows = o.A.rows
                      /\ X.cols = o.A.cols
        IN  /\ o.pc = "matmul"
            /\ th' = [th EXCEPT
                         !.obj[t] = [o EXCEPT
                             !.pc = "idle",
                             !.err = IF shapes THEN "none" ELSE "ShapeError",
                             !.A = IF shapes THEN matrix_matmul(A0, X) ELSE o.A],
                         !.X[X_of_thread(t)] = NULL]
            /\ UNCHANGED <<data, A, call, sl, env, gdc, meas>>

SpecThreads ==
    InitThreads /\ [][\/ ThInitUpdate
                      \/ ThInitUpdateEnsMask
                      \/ ThInitUpdateObsMask
                      \/ ThUpdateA
                      \/ ThUpdateAStores
                      \/ ThUpdateACopies
                      \/ ThUpdateAInitX
                      \/ ThUpdateALog
                      \/ ThUpdateAMatmul]_vars

-----------------------------------------------------------------------------
(* gen_data_config: the sizes and the active mask of a GEN_DATA key, shared *)
(* by the ensemble members that load their results concurrently.  Every     *)
(* member loads each report step once, in an order of its own: it calls     *)
(* gen_data_config_assert_size with the size of what it loaded and then     *)
(* gen_data_config_update_active with its data mask.  A call is taken in    *)
(* two steps: taking update_lock, and the body with the unlock.             *)

Members == 2
MaxReportStep == 1
MaxDataSize == 2
MaxAddedStep == 6

\* the default of data_size_vector: not set
NOT_SET == -1

\* int_vector of default NOT_SET; index i of the vector is place i + 1
int_vector_safe_iget(v, index) ==
    IF index >= 0 /\ index < Len(v) THEN v[index + 1] ELSE NOT_SET

\* int_vector_iget: [abort, value]; an index outside the vector aborts
int_vector_iget(v, index) ==
    IF index >= 0 /\ index < Len(v)
    THEN [abort |-> FALSE, value |-> v[index + 1]]
    ELSE [abort |-> TRUE, value |-> NOT_SET]

\* int_vector_iset: the vector grows to hold the index, new places default
int_vector_iset(v, index, value) ==
    [i \in 1..(IF index + 1 > Len(v) THEN index + 1 ELSE Len(v)) |->
        IF i = index + 1 THEN value
        ELSE IF i <= Len(v) THEN v[i] ELSE NOT_SET]

\* bool_vector of default true
bool_vector_iset(mask, index, value) ==
    [i \in 1..(IF index + 1 > Len(mask) THEN index + 1 ELSE Len(mask)) |->
        IF i = index + 1 THEN value
        ELSE IF i <= Len(mask) THEN mask[i] ELSE TRUE]

\* gen_data_config_assert_size that records the size of the last caller
gen_data_config_assert_size_last_recorded(config, data_size, report_step) ==
    [abort |-> FALSE,
     config |-> [config EXCEPT
                    !.data_size_vector =
                        int_vector_iset(config.data_size_vector, report_step,
                                        data_size)]]

\* gen_data_config_assert_size, between lock and unlock: [abort, config]
gen_data_config_assert_size(config, data_size, report_step) ==
    LET stored == int_vector_safe_iget(config.data_size_vector, report_step)
        recorded == IF stored < 0
                    THEN [config EXCEPT
                             !.data_size_vector =
                                 int_vector_iset(config.data_size_vector,
                                                 report_step, data_size)]
                    ELSE config
        current_size == IF stored < 0 THEN data_size ELSE stored
    IN  [abort |-> current_size # data_size, config |-> recorded]

\* the loop of update_config_to_datamask over the first n entries of
\* data_mask; entry i of a bool_vector is place i + 1
RECURSIVE set_inactive(_, _, _)
set_inactive(config, data_mask, n) ==
    IF n = 0 THEN config
    ELSE LET c == set_inactive(config, data_mask, n - 1)
         IN  IF data_mask[n] THEN c
             ELSE [c EXCEPT
                      !.active_mask = bool_vector_iset(c.active_mask, n - 1, FALSE),
                      !.mask_modified = TRUE]

\* update_config_to_datamask that does not set mask_modified when it resets
\* the mask for a new report step
update_config_to_datamask_reset_unmarked(config, fs, data_mask, report_step) ==
    LET first == config.active_report_step # report_step
        c1 == IF first
              THEN [config EXCEPT
                       !.active_mask =
                           bool_vector_iset(
                               <<>>,
                               int_vector_iget(config.data_size_vector,
                                               report_step).value - 1,
                               TRUE)]
              ELSE config
        c2 == set_inactive(c1, data_mask, bool_vector_size(data_mask))
    IN  IF ~c2.mask_modified
        THEN [config |-> c2, fs |-> fs]
        ELSE [config |-> [c2 EXCEPT !.mask_modified = FALSE],
              fs |-> [fs EXCEPT ![report_step] = [mask |-> c2.active_mask]]]

\* update_config_to_datamask: [config, fs], fs the files written to the case,
\* NULL where none was written;
\* bool_vector_reset leaves the empty vector
update_config_to_datamask(config, fs, data_mask, report_step) ==
    LET first == config.active_report_step # report_step
        c1 == IF first
              THEN [config EXCEPT
                       !.active_mask =
                           bool_vector_iset(
                               <<>>,
                               int_vector_iget(config.data_size_vector,
                                               report_step).value - 1,
                               TRUE),
                       !.mask_modified = TRUE]
              ELSE config
        c2 == set_inactive(c1, data_mask, bool_vector_size(data_mask))
    IN  IF ~c2.mask_modified
        THEN [config |-> c2, fs |-> fs]
        ELSE [config |-> [c2 EXCEPT !.mask_modified = FALSE],
              fs |-> [fs EXCEPT ![report_step] = [mask |-> c2.active_mask]]]

\* gen_data_config_update_active, between lock and unlock: [abort, config, fs]
gen_data_config_update_active(config, fs, report_step, data_mask) ==
    LET size == int_vector_iget(config.data_size_vector, report_step)
    IN  IF size.abort
        THEN [abort |-> TRUE, config |-> config, fs |-> fs]
        ELSE LET r == IF size.value > 0
                      THEN update_config_to_datamask(config, fs, data_mask,
                                                     report_step)
                      ELSE [config |-> config, fs |-> fs]
             IN  [abort |-> FALSE,
                  config |-> [r.config EXCEPT !.active_report_step = report_step],
                  fs |-> r.fs]

\* gen_data_config_load_active, between lock and unlock: [abort, config].
\* The size is read only when force_load is not set; the file of the report
\* step is the mask written to the case, if one was written; bool_vector_iset
\* aborts on the index -1 of a size of 0
gen_data_config_load_active(config, fs, report_step, force_load, fs_changed) ==
    LET size == int_vector_iget(config.data_size_vector, report_step)
        gen_data_size == int_vector_safe_iget(config.data_size_vector, report_step)
        done == [abort |-> FALSE,
                 config |-> [config EXCEPT !.active_report_step = report_step]]
    IN  IF ~force_load /\ size.abort
        THEN [abort |-> TRUE, config |-> config]
        ELSE IF ~(force_load \/ size.value > 0) THEN done
        ELSE IF ~(config.active_report_step # report_step \/ fs_changed) THEN done
        ELSE IF fs[report_step] # NULL
        THEN [abort |-> FALSE,
              config |-> [config EXCEPT !.active_mask = fs[report_step].mask,
                                        !.active_report_step = report_step]]
        ELSE IF gen_data_size <= 0
        THEN [abort |-> TRUE, config |-> config]
        ELSE [abort |-> FALSE,
              config |-> [config EXCEPT
                             !.active_mask =
                                 bool_vector_iset(<<>>, gen_data_size - 1, TRUE),
                             !.active_report_step = report_step]]

\* gen_data_config_has_report_step: int_vector_contains_sorted, a search by
\* bisection that takes the vector to be sorted increasing
gen_data_config_has_report_step(config, report_step) ==
    LET v == config.active_report_steps
        RECURSIVE bisect(_, _)
        bisect(lower, upper) ==
            IF lower > upper THEN FALSE
            ELSE LET center == (lower + upper) \div 2
                 IN  IF v[center] = report_step THEN TRUE
                     ELSE IF v[center] < report_step
                     THEN bisect(center + 1, upper)
                     ELSE bisect(lower, center - 1)
    IN  bisect(1, Len(v))

gen_data_config_add_report_step_unsorted(config, report_step) ==
    IF ~gen_data_config_has_report_step(config, report_step)
    THEN [config EXCEPT !.active_report_steps = Append(@, report_step)]
    ELSE config

\* gen_data_config_add_report_step: int_vector_append and int_vector_sort,
\* for a report step the search does not find
gen_data_config_add_report_step(config, report_step) ==
    LET RECURSIVE insert(_, _), int_vector_sort(_)
        insert(sorted, x) ==
            IF sorted = <<>> THEN <<x>>
            ELSE IF x <= Head(sorted) THEN <<x>> \o sorted
            ELSE <<Head(sorted)>> \o insert(Tail(sorted), x)
        int_vector_sort(v) ==
            IF v = <<>> THEN <<>>
            ELSE insert(int_vector_sort(Tail(v)), Head(v))
    IN  IF ~gen_data_config_has_report_step(config, report_step)
        THEN [config EXCEPT
                 !.active_report_steps = int_vector_sort(Append(@, report_step))]
        ELSE config

\* the configuration as gen_data_config_alloc leaves it, mask_modified not
\* initialized, and no member loading; loaded keeps, for every member
\* and report step, the data mask the member has passed to
\* gen_data_config_update_active
InitGenData ==
    /\ data = data_alloc
    /\ A = NULL
    /\ call = NoCall
    /\ sl = NoSlice
    /\ env = NULL
    /\ th = NULL
    /\ meas = NULL
    /\ \E mask_modified \in BOOLEAN :
           gdc = [config |-> [data_size_vector |-> <<>>, active_mask |-> <<>>,
                              active_report_step |-> -1,
                              mask_modified |-> mask_modified,
                              last_read_fs |-> NULL,
                              active_report_steps |-> <<>>],
                  fs |-> [r \in (0..MaxReportStep) |-> NULL],
                  update_lock |-> 0,
                  unlocked |-> {},
                  added |-> {},
                  aborted |-> FALSE,
                  member |-> [m \in 1..Members |->
                                 [at |-> "idle", report_step |-> -1,
                                  data_size |-> 0, data_mask |-> <<>>]],
                  loaded |-> [m \in 1..Members |->
                                 [r \in (0..MaxReportStep) |-> NULL]]]

\* member m has loaded a report step and calls gen_data_config_assert_size:
\* pthread_mutex_lock
AssertSizeLock(m) ==
    /\ ~gdc.aborted
    /\ gdc.member[m].at = "idle"
    /\ gdc.update_lock = 0
    /\ \E report_step \in (0..MaxReportStep), data_size \in 0..MaxDataSize :
       \E data_mask \in Masks(data_size) :
           /\ gdc.loaded[m][report_step] = NULL
           /\ gdc' = [gdc EXCEPT
                         !.update_lock = m,
                         !.member[m] = [at |-> "assert_size",
                                        report_step |-> report_step,
                                        data_size |-> data_size,
                                        data_mask |-> data_mask]]
    /\ UNCHANGED <<data, A, call, sl, env, th, meas>>

\* the body of gen_data_config_assert_size and pthread_mutex_unlock; util_abort
\* ends the process
AssertSize(m) ==
    /\ ~gdc.aborted
    /\ gdc.member[m].at = "assert_size"
    /\ gdc.update_lock = m
    /\ LET r == gen_data_config_assert_size(gdc.config, gdc.member[m].data_size,
                                            gdc.member[m].report_step)
       IN  gdc' = IF r.abort
                  THEN [gdc EXCEPT !.config = r.config, !.aborted = TRUE]
                  ELSE [gdc EXCEPT !.config = r.config,
                                   !.update_lock = 0,
                                   !.member[m].at = "assert_size_done"]
    /\ UNCHANGED <<data, A, call, sl, env, th, meas>>

\* gen_data_config_update_active: pthread_mutex_lock
UpdateActiveLock(m) ==
    /\ ~gdc.aborted
    /\ gdc.member[m].at = "assert_size_done"
    /\ gdc.update_lock = 0
    /\ gdc' = [gdc EXCEPT !.update_lock = m,
                          !.member[m].at = "update_active"]
    /\ UNCHANGED <<data, A, call, sl, env, th, meas>>

\* the body of gen_data_config_update_active and pthread_mutex_unlock
UpdateActive(m) ==
    /\ ~gdc.aborted
    /\ gdc.member[m].at = "update_active"
    /\ gdc.update_lock = m
    /\ LET report_step == gdc.member[m].report_step
           r == gen_data_config_update_active(gdc.config, gdc.fs, report_step,
                                              gdc.member[m].data_mask)
       IN  gdc' = IF r.abort
                  THEN [gdc EXCEPT !.aborted = TRUE]
                  ELSE [gdc EXCEPT
                           !.config = r.config,
                           !.fs = r.fs,
                           !.update_lock = 0,
                           !.loaded[m][report_step] =
                               [data_mask |-> gdc.member[m].data_mask],
                           !.member[m] = [at |-> "idle", report_step |-> -1,
                                          data_size |-> 0, data_mask |-> <<>>]]
    /\ UNCHANGED <<data, A, call, sl, env, th, meas>>

\* member m calls gen_data_config_load_active for the case: the lines before
\* pthread_mutex_lock, which compare last_read_fs with fs and set it. The
\* read races with the write of a member that is in the function and has set
\* the field: it sees the field as it is, or as it was before that write
LoadActiveFs(m) ==
    /\ ~gdc.aborted
    /\ gdc.member[m].at = "idle"
    /\ \E report_step \in (0..MaxReportStep), force_load \in BOOLEAN,
          fs_changed \in
              {[fs |-> "sim_fs"] # gdc.config.last_read_fs}
              \cup {TRUE : other \in {o \in 1..Members :
                                         /\ gdc.member[o].at = "load_active"
                                         /\ gdc.member[o].fs_changed}} :
           gdc' = [gdc EXCEPT
                      !.config.last_read_fs = [fs |-> "sim_fs"],
                      !.unlocked = IF gdc.update_lock = m THEN @
                                   ELSE @ \cup {"last_read_fs"},
                      !.member[m] =
                          [at |-> "load_active", report_step |-> report_step,
                           data_size |-> 0, data_mask |-> <<>>,
                           force_load |-> force_load,
                           fs_changed |-> fs_changed]]
    /\ UNCHANGED <<data, A, call, sl, env, th, meas>>

\* pthread_mutex_lock, the body of gen_data_config_load_active and
\* pthread_mutex_unlock
LoadActive(m) ==
    /\ ~gdc.aborted
    /\ gdc.member[m].at = "load_active"
    /\ gdc.update_lock = 0
    /\ LET r == gen_data_config_load_active(gdc.config, gdc.fs,
                                            gdc.member[m].report_step,
                                            gdc.member[m].force_load,
                                            gdc.member[m].fs_changed)
       IN  gdc' = IF r.abort
                  THEN [gdc EXCEPT !.update_lock = m, !.aborted = TRUE]
                  ELSE [gdc EXCEPT
                           !.config = r.config,
                           !.member[m] = [at |-> "idle", report_step |-> -1,
                                          data_size |-> 0, data_mask |-> <<>>]]
    /\ UNCHANGED <<data, A, call, sl, env, th, meas>>

SpecGenData ==
    InitGenData
    /\ [][\E m \in 1..Members :
              \/ AssertSizeLock(m)
              \/ AssertSize(m)
              \/ UpdateActiveLock(m)
              \/ UpdateActive(m)
              \/ LoadActiveFs(m)
              \/ LoadActive(m)]_vars

\* the configuration is told the report steps of the observations, one call
\* of gen_data_config_add_report_step after another; added keeps the report
\* steps of the calls made
AddReportStep ==
    /\ \E report_step \in 0..MaxAddedStep :
           gdc' = [gdc EXCEPT
                      !.config = gen_data_config_add_report_step(gdc.config,
                                                                 report_step),
                      !.added = @ \cup {report_step}]
    /\ UNCHANGED <<data, A, call, sl, env, th, meas>>

SpecReportSteps == InitGenData /\ [][AddReportStep]_vars

-----------------------------------------------------------------------------
(* meas_block (meas_data.cpp): the measurements of one observation key, a   *)
(* row of active_ens_size values, a mean and a standard deviation for each  *)
(* of obs_size observations. A double is a record [num, den, root]: the     *)
(* number num / den, or its square root when root is set; calloc leaves     *)
(* [num |-> 0, den |-> 1, root |-> FALSE] in every place. iens and iobs     *)
(* count from 0 as in the code, place i of an array is element i + 1.       *)

MeasEnsSize == 2
MeasObsSize == 2
MaxMeasValue == 2
MeasThreads == 2

\* meas_block_alloc, with bool_vector_to_active_index_list for index_map
meas_block_alloc(obs_key, ens_mask, obs_size) ==
    LET active_ens_size == Cardinality({i \in 1..Len(ens_mask) : ens_mask[i]})
        bool_vector_to_active_index_list ==
            [i \in 1..Len(ens_mask) |->
                IF ens_mask[i]
                THEN Cardinality({j \in 1..(i - 1) : ens_mask[j]})
                ELSE -1]
    IN  [active_ens_size |-> active_ens_size,
         ens_mask |-> ens_mask,
         obs_size |-> obs_size,
         obs_key |-> obs_key,
         data |-> [i \in 1..((active_ens_size + 2) * obs_size) |->
                      [num |-> 0, den |-> 1, root |-> FALSE]],
         active |-> [i \in 1..obs_size |-> FALSE],
         ens_stride |-> 1,
         obs_stride |-> active_ens_size + 2,
         data_size |-> (active_ens_size + 2) * obs_size,
         index_map |-> bool_vector_to_active_index_list,
         stat_calculated |-> FALSE]

\* meas_block_calculate_ens_stats: the mean M1 / n and the standard deviation
\* sqrt(max(0, M2 / n - mean * mean)) = sqrt(max(0, n * M2 - M1 * M1) / n^2)
\* of every active observation, written to the two places after its values
meas_block_calculate_ens_stats(meas_block) ==
    LET n == meas_block.active_ens_size
        RECURSIVE M1(_, _), M2(_, _), stats(_, _)
        M1(iobs, iens) ==
            IF iens = n THEN 0
            ELSE meas_block.data[iens * meas_block.ens_stride
                                 + iobs * meas_block.obs_stride + 1].num
                 + M1(iobs, iens + 1)
        M2(iobs, iens) ==
            IF iens = n THEN 0
            ELSE LET x == meas_block.data[iens * meas_block.ens_stride
                                          + iobs * meas_block.obs_stride + 1].num
                 IN  x * x + M2(iobs, iens + 1)
        stats(d, iobs) ==
            IF iobs = meas_block.obs_size THEN d
            ELSE IF ~meas_block.active[iobs + 1] THEN stats(d, iobs + 1)
            ELSE LET mean_index == (n + 0) * meas_block.ens_stride
                                   + iobs * meas_block.obs_stride
                     std_index == (n + 1) * meas_block.ens_stride
                                  + iobs * meas_block.obs_stride
                     var == n * M2(iobs, 0) - M1(iobs, 0) * M1(iobs, 0)
                 IN  stats([d EXCEPT
                               ![mean_index + 1] =
                                   [num |-> M1(iobs, 0), den |-> n,
                                    root |-> FALSE],
                               ![std_index + 1] =
                                   [num |-> IF var > 0 THEN var ELSE 0,
                                    den |-> n * n, root |-> TRUE]],
                           iobs + 1)
    IN  [meas_block EXCEPT !.data = stats(meas_block.data, 0),
                           !.stat_calculated = TRUE]

meas_block_iset_keeps_statistics(meas_block, iens, iobs, value) ==
    IF ~meas_block.ens_mask[iens + 1]
    THEN [abort |-> TRUE, meas_block |-> meas_block]
    ELSE LET active_iens == int_vector_iget(meas_block.index_map, iens).value
             index == active_iens * meas_block.ens_stride
                      + iobs * meas_block.obs_stride
         IN  [abort |-> FALSE,
              meas_block |-> [meas_block EXCEPT !.data[index + 1] = value,
                                                !.active[iobs + 1] = TRUE]]

meas_block_iset_at_iens(meas_block, iens, iobs, value) ==
    IF ~meas_block.ens_mask[iens + 1]
    THEN [abort |-> TRUE, meas_block |-> meas_block]
    ELSE LET index == iens * meas_block.ens_stride
                      + iobs * meas_block.obs_stride
         IN  [abort |-> FALSE,
              meas_block |-> [meas_block EXCEPT !.data[index + 1] = value,
                                                !.active[iobs + 1] = TRUE,
                                                !.stat_calculated = FALSE]]

\* meas_block_iset: meas_block_assert_iens_active aborts for a member the
\* mask leaves out, before anything is written
meas_block_iset(meas_block, iens, iobs, value) ==
    IF ~meas_block.ens_mask[iens + 1]
    THEN [abort |-> TRUE, meas_block |-> meas_block]
    ELSE LET active_iens == int_vector_iget(meas_block.index_map, iens).value
             index == active_iens * meas_block.ens_stride
                      + iobs * meas_block.obs_stride
         IN  [abort |-> FALSE,
              meas_block |-> [meas_block EXCEPT !.data[index + 1] = value,
                                                !.active[iobs + 1] = TRUE,
                                                !.stat_calculated = FALSE]]

meas_block_iget(meas_block, iens, iobs) ==
    IF ~meas_block.ens_mask[iens + 1]
    THEN [abort |-> TRUE, value |-> NULL]
    ELSE LET active_iens == int_vector_iget(meas_block.index_map, iens).value
             index == active_iens * meas_block.ens_stride
                      + iobs * meas_block.obs_stride
         IN  [abort |-> FALSE, value |-> meas_block.data[index + 1]]

\* meas_block_iget_ens_std, with meas_block_assert_ens_stat: the statistics
\* are calculated first when stat_calculated is not set
meas_block_iget_ens_std(meas_block, iobs) ==
    LET b == IF ~meas_block.stat_calculated
             THEN meas_block_calculate_ens_stats(meas_block)
             ELSE meas_block
        std_index == (b.active_ens_size + 1) * b.ens_stride + iobs * b.obs_stride
    IN  [meas_block |-> b, value |-> b.data[std_index + 1]]

meas_block_iget_ens_mean(meas_block, iobs) ==
    LET b == IF ~meas_block.stat_calculated
             THEN meas_block_calculate_ens_stats(meas_block)
             ELSE meas_block
        mean_index == b.active_ens_size * b.ens_stride + iobs * b.obs_stride
    IN  [meas_block |-> b, value |-> b.data[mean_index + 1]]

meas_block_deactivate(meas_block, iobs) ==
    [meas_block EXCEPT !.active[iobs + 1] = FALSE, !.stat_calculated = FALSE]

\* a block of MeasObsSize observations under every mask of MeasEnsSize
\* members; last is the call made last
InitMeasBlock ==
    /\ data = data_alloc
    /\ A = NULL
    /\ call = NoCall
    /\ sl = NoSlice
    /\ env = NULL
    /\ th = NULL
    /\ gdc = NULL
    /\ \E ens_mask \in Masks(MeasEnsSize) :
           meas = [block |-> meas_block_alloc("OBS", ens_mask, MeasObsSize),
                   last |-> [op |-> "meas_block_alloc", abort |-> FALSE]]

ISet ==
    /\ ~meas.last.abort
    /\ \E iens \in 0..(MeasEnsSize - 1), iobs \in 0..(MeasObsSize - 1),
          value \in 1..MaxMeasValue :
           LET r == meas_block_iset(meas.block, iens, iobs,
                                    [num |-> value, den |-> 1, root |-> FALSE])
           IN  meas' = [block |-> r.meas_block,
                        last |-> [op |-> "meas_block_iset", iens |-> iens,
                                  iobs |-> iobs, value |-> value,
                                  abort |-> r.abort]]
    /\ UNCHANGED <<data, A, call, sl, env, th, gdc>>

IGet ==
    /\ ~meas.last.abort
    /\ \E iens \in 0..(MeasEnsSize - 1), iobs \in 0..(MeasObsSize - 1) :
           LET r == meas_block_iget(meas.block, iens, iobs)
           IN  meas' = [block |-> meas.block,
                        last |-> [op |-> "meas_block_iget", iens |-> iens,
                                  iobs |-> iobs, value |-> r.value,
                                  abort |-> r.abort]]
    /\ UNCHANGED <<data, A, call, sl, env, th, gdc>>

Deactivate ==
    /\ ~meas.last.abort
    /\ \E iobs \in 0..(MeasObsSize - 1) :
           meas' = [block |-> meas_block_deactivate(meas.block, iobs),
                    last |-> [op |-> "meas_block_deactivate", iobs |-> iobs,
                              abort |-> FALSE]]
    /\ UNCHANGED <<data, A, call, sl, env, th, gdc>>

IGetEnsMean ==
    /\ ~meas.last.abort
    /\ \E iobs \in 0..(MeasObsSize - 1) :
           LET r == meas_block_iget_ens_mean(meas.block, iobs)
           IN  meas' = [block |-> r.meas_block,
                        last |-> [op |-> "meas_block_iget_ens_mean",
                                  iobs |-> iobs, value |-> r.value,
                                  abort |-> FALSE]]
    /\ UNCHANGED <<data, A, call, sl, env, th, gdc>>

IGetEnsStd ==
    /\ ~meas.last.abort
    /\ \E iobs \in 0..(MeasObsSize - 1) :
           LET r == meas_block_iget_ens_std(meas.block, iobs)
           IN  meas' = [block |-> r.meas_block,
                        last |-> [op |-> "meas_block_iget_ens_std",
                                  iobs |-> iobs, value |-> r.value,
                                  abort |-> FALSE]]
    /\ UNCHANGED <<data, A, call, sl, env, th, gdc>>

SpecMeasBlock ==
    InitMeasBlock
    /\ [][ISet \/ IGet \/ Deactivate \/ IGetEnsMean \/ IGetEnsStd]_vars

-----------------------------------------------------------------------------
(* meas_data (meas_data.cpp): the vector of the blocks and the hash from    *)
(* lookup key to block. A block pointer is the place of the block in the    *)
(* vector, which owns the blocks and never gives one up; the lookup key     *)
(* "<obs_key>-<report_step>" is the pair of the two. A call of              *)
(* meas_data_add_block is three steps of its thread: pthread_mutex_lock,    *)
(* the locked block with pthread_mutex_unlock, and the return.              *)

\* the locked block of meas_data_add_block (275-283)
meas_data_add_block(matrix, obs_key, report_step, obs_size) ==
    LET lookup_key == <<obs_key, report_step>>
    IN  IF lookup_key \notin DOMAIN matrix.blocks
        THEN LET new_block == meas_block_alloc(obs_key, matrix.ens_mask, obs_size)
                 vec == Append(matrix.data, new_block)
             IN  [matrix EXCEPT
                     !.data = vec,
                     !.blocks = [k \in DOMAIN matrix.blocks \cup {lookup_key} |->
                                    IF k = lookup_key THEN Len(vec)
                                    ELSE matrix.blocks[k]]]
        ELSE matrix

\* meas_data_alloc for an ensemble of one member, and one thread that adds
\* blocks of two keys, two report steps and two sizes, one call after another
InitMeasData ==
    /\ data = data_alloc
    /\ A = NULL
    /\ call = NoCall
    /\ sl = NoSlice
    /\ env = NULL
    /\ th = NULL
    /\ gdc = NULL
    /\ meas = [matrix |-> [data |-> <<>>, blocks |-> <<>>,
                           ens_mask |-> <<TRUE>>, active_ens_size |-> 1,
                           data_mutex |-> 0],
               obs_keys |-> [t \in {1} |-> {"A", "B"}],
               obs_sizes |-> 1..MeasObsSize,
               thread |-> [t \in {1} |-> [at |-> "idle"]]]

\* MeasThreads threads that add blocks: the first under obs_key "A", the
\* others under obs_key "B", so that no key of the first is a key of another
InitMeasThreads ==
    /\ data = data_alloc
    /\ A = NULL
    /\ call = NoCall
    /\ sl = NoSlice
    /\ env = NULL
    /\ th = NULL
    /\ gdc = NULL
    /\ meas = [matrix |-> [data |-> <<>>, blocks |-> <<>>,
                           ens_mask |-> <<TRUE>>, active_ens_size |-> 1,
                           data_mutex |-> 0],
               obs_keys |-> [t \in 1..MeasThreads |->
                                IF t = 1 THEN {"A"} ELSE {"B"}],
               obs_sizes |-> {1},
               thread |-> [t \in 1..MeasThreads |-> [at |-> "idle"]]]

\* thread t calls meas_data_add_block: meas_data_alloc_key and
\* pthread_mutex_lock
AddBlockLock(t) ==
    /\ t \in DOMAIN meas.thread
    /\ meas.thread[t].at = "idle"
    /\ meas.matrix.data_mutex = 0
    /\ \E obs_key \in meas.obs_keys[t], report_step \in 0..MaxReportStep,
          obs_size \in meas.obs_sizes :
           meas' = [meas EXCEPT
                       !.matrix.data_mutex = t,
                       !.thread[t] = [at |-> "locked", obs_key |-> obs_key,
                                      report_step |-> report_step,
                                      obs_size |-> obs_size]]
    /\ UNCHANGED <<data, A, call, sl, env, th, gdc>>

\* the locked block and pthread_mutex_unlock
AddBlockInsert(t) ==
    /\ t \in DOMAIN meas.thread
    /\ meas.thread[t].at = "locked"
    /\ LET c == meas.thread[t]
           matrix == meas_data_add_block(meas.matrix, c.obs_key, c.report_step,
                                         c.obs_size)
       IN  meas' = [meas EXCEPT
                       !.matrix = [matrix EXCEPT !.data_mutex = 0],
                       !.thread[t].at = "unlocked"]
    /\ UNCHANGED <<data, A, call, sl, env, th, gdc>>

\* free(lookup_key) and return vector_get_last(matrix->data), outside the
\* lock: while another thread is inside the locked block the read races with
\* its vector_append_owned_ref, and returns the last block or no block at all
AddBlockReturn(t) ==
    /\ t \in DOMAIN meas.thread
    /\ meas.thread[t].at = "unlocked"
    /\ \E block \in {Len(meas.matrix.data)}
                    \cup (IF meas.matrix.data_mutex # 0 THEN {0} ELSE {}) :
           meas' = [meas EXCEPT
                       !.thread[t] = [at |-> "idle",
                                      obs_key |-> meas.thread[t].obs_key,
                                      report_step |-> meas.thread[t].report_step,
                                      block |-> block]]
    /\ UNCHANGED <<data, A, call, sl, env, th, gdc>>

SpecMeasData ==
    InitMeasData
    /\ [][\E t \in 1..MeasThreads :
              \/ AddBlockLock(t)
              \/ AddBlockInsert(t)
              \/ AddBlockReturn(t)]_vars

SpecMeasThreads ==
    InitMeasThreads
    /\ [][\E t \in 1..MeasThreads :
              \/ AddBlockLock(t)
              \/ AddBlockInsert(t)
              \/ AddBlockReturn(t)]_vars

-----------------------------------------------------------------------------
(* The properties of the iteration state, checked under Spec, SpecObs and  *)
(* SpecSlice                                                               *)

\* C1: once an ensemble mask is stored, no call turns an entry of ens_mask
\* from false to true, and the size of the mask stays the same: every entry
\* that is true after a step was true before it.
C1_EnsMaskOnlyShrinks ==
    [][data.ens_mask # NoMask =>
           /\ bool_vector_size(data'.ens_mask) = bool_vector_size(data.ens_mask)
           /\ \A iens \in 1..bool_vector_size(data.ens_mask) :
                  data'.ens_mask[iens] => data.ens_mask[iens]]_vars

\* an init_update that asked for a realization that had been dropped was
\* refused, and the realization is still inactive
C1_Witness ==
    /\ call.op = "init_update"
    /\ call.err = "MaskError"
    /\ bool_vector_size(data.ens_mask) = EnsSize
    /\ \E iens \in 1..EnsSize : ~data.ens_mask[iens]

\* C2: A0 is written once, by the first updateA, with the A that call was
\* given; every later step leaves A0 as it is, although updateA overwrites
\* the caller's A.
C2_A0WrittenOnce ==
    [][/\ data.A0 # NULL => data'.A0 = data.A0
       /\ (data.A0 = NULL /\ data'.A0 # NULL)
              => data'.A0 = A_active(A, data.ens_mask)]_vars

\* a second or later updateA has completed and the caller's A no longer
\* equals A0
C2_Witness ==
    /\ call.op = "updateA"
    /\ call.err = "none"
    /\ call.updates >= 2
    /\ bool_vector_count_equal(data.ens_mask, TRUE) = EnsSize
    /\ A_active(A, data.ens_mask) # data.A0

\* C3: after a completed updateA, W[i][j] is zero when realization i or j is
\* inactive, and is the coefficient the call computed for the pair of their
\* active ranks when both are active; this also holds when the mask has
\* shrunk since W was last written.
C3_StoredW ==
    (call.op = "updateA" /\ call.err = "none") =>
        /\ matrix_get_rows(data.W) = bool_vector_size(data.ens_mask)
        /\ matrix_get_columns(data.W) = bool_vector_size(data.ens_mask)
        /\ \A i, j \in 1..bool_vector_size(data.ens_mask) :
               data.W.val[i][j] =
                   IF data.ens_mask[i] /\ data.ens_mask[j]
                   THEN call.W0.val[active_rank(data.ens_mask, i)]
                                   [active_rank(data.ens_mask, j)]
                   ELSE 0

\* a second or later updateA completed with a realization dropped and stored
\* coefficients that are not zero
C3_Witness ==
    /\ call.op = "updateA"
    /\ call.err = "none"
    /\ call.updates >= 2
    /\ \E iens \in 1..EnsSize : ~data.ens_mask[iens]
    /\ \E i, j \in 1..EnsSize : data.W.val[i][j] # 0

\* C4: an updateA that fails leaves the iteration state as it was before
\* the call.
C4_FailedUpdateAChangesNothing ==
    [][(call'.op = "updateA" /\ call'.err # "none") => data' = data]_vars

\* C5: the iteration number is the number of updateA calls made so far, so
\* every updateA raises it by one and init_update leaves it alone, and the
\* k-th updateA runs with iteration number k.
C5_IterationNr ==
    /\ data.iteration_nr = call.updates
    /\ call.op = "updateA" => call.iter = call.updates

\* the third updateA has completed
C5_Witness ==
    /\ call.op = "updateA"
    /\ call.err = "none"
    /\ call.updates = 3
    /\ call.iter = 3
    /\ data.iteration_nr = 3

\* C6: obs_mask0 is the observation mask the first init_update was given,
\* obs_mask the one the most recent init_update was given.
C6_ObsMasks ==
    /\ data.obs_mask0 = call.obs_first
    /\ data.obs_mask = call.obs_last

\* init_update was called again with another observation mask and an
\* updateA followed
C6_Witness ==
    /\ call.op = "updateA"
    /\ call.obs_first # NoMask
    /\ call.obs_last # call.obs_first
    /\ data.obs_mask0 # data.obs_mask

\* C7: a row of E that holds stored perturbations keeps them over every
\* step, and the first updateA stores the E it was given: so with
\* obs_mask0 = [T, F] and a later obs_mask = [T, T] the row of observation 0
\* is still the one of the first iteration after E has grown.
C7_ERowsKept ==
    [][/\ data.E # NULL =>
              \A iobs \in data.E.held :
                  /\ iobs \in data'.E.held
                  /\ data'.E.val[iobs] = data.E.val[iobs]
       /\ (data.E = NULL /\ data'.E # NULL) =>
              /\ alloc_activeE(data') = call'.Ein
              /\ data'.E.held = {iobs \in 1..ObsSize : data.obs_mask[iobs]}]_vars

\* E was stored with observation 0 only and has grown by the row of
\* observation 1, taken from an E_in of another tag than the first
C7_Witness ==
    /\ call.op = "updateA"
    /\ call.updates >= 2
    /\ data.obs_mask0 = <<TRUE, FALSE>>
    /\ data.obs_mask = <<TRUE, TRUE>>
    /\ data.E.held = {1, 2}
    /\ data.E.val[2][1] - data.E.val[1][1] # 10

\* C8: the number of rows of E that hold stored perturbations never goes
\* down from one step to the next, whatever observations are switched off
\* or on again.
C8_ERowCountNonDecreasing ==
    [][data.E # NULL =>
           /\ data'.E # NULL
           /\ Cardinality(data'.E.held) >= Cardinality(data.E.held)]_vars

\* an updateA ran with one observation active while E holds two rows
C8_Witness ==
    /\ call.op = "updateA"
    /\ call.updates >= 2
    /\ Cardinality(data.E.held) = 2
    /\ bool_vector_count_equal(data.obs_mask, TRUE) = 1

\* C9: taking the active block of a square W with alloc_active(W, ens_mask,
\* ens_mask) and storing it back with linalg_store_active_W gives W at the
\* positions where both realizations are active and zero everywhere else.
C9_RoundTrip ==
    sl.pc = "roundtrip" =>
        /\ sl.out.rows = sl.M.rows
        /\ sl.out.cols = sl.M.cols
        /\ \A i \in 1..sl.M.rows, j \in 1..sl.M.cols :
               sl.out.val[i][j] = IF sl.row_mask[i] /\ sl.row_mask[j]
                                  THEN sl.M.val[i][j]
                                  ELSE 0

\* a round trip through a mask with an active and an inactive realization,
\* of a W that is not zero at an active and at an inactive position
C9_Witness ==
    /\ sl.pc = "roundtrip"
    /\ \E i, j \in 1..sl.M.rows :
           /\ sl.row_mask[i] /\ ~sl.row_mask[j]
           /\ sl.M.val[i][i] # 0
           /\ sl.M.val[i][j] # 0
           /\ sl.out.val[i][j] = 0

\* C10: alloc_active(M, row_mask, column_mask) has as many rows as row_mask
\* has true entries and as many columns as column_mask has; its entry (r, c)
\* is M at the r-th true row and the c-th true column, in increasing order;
\* M and the masks are as they were.
C10_AllocActive ==
    [][sl'.pc = "active" =>
        LET nrows == Cardinality({i \in 1..sl.M.rows : sl.row_mask[i]})
            ncols == Cardinality({j \in 1..sl.M.cols : sl.column_mask[j]})
            row_of(r) == CHOOSE i \in 1..sl.M.rows :
                /\ sl.row_mask[i]
                /\ Cardinality({k \in 1..i : sl.row_mask[k]}) = r
            col_of(c) == CHOOSE j \in 1..sl.M.cols :
                /\ sl.column_mask[j]
                /\ Cardinality({k \in 1..j : sl.column_mask[k]}) = c
        IN  /\ sl'.out.rows = nrows
            /\ sl'.out.cols = ncols
            /\ Len(sl'.out.val) = nrows
            /\ \A r \in 1..nrows :
                   /\ Len(sl'.out.val[r]) = ncols
                   /\ \A c \in 1..ncols :
                          sl'.out.val[r][c] = sl.M.val[row_of(r)][col_of(c)]
            /\ sl'.M = sl.M
            /\ sl'.row_mask = sl.row_mask
            /\ sl'.column_mask = sl.column_mask]_vars

\* the active block of a matrix whose masks differ and drop a row
C10_Witness ==
    /\ sl.pc = "active"
    /\ sl.M.rows = 2 /\ sl.M.cols = 2
    /\ sl.row_mask = <<FALSE, TRUE>>
    /\ sl.column_mask = <<TRUE, TRUE>>
    /\ sl.M.val[2][1] # sl.M.val[1][1]
    /\ sl.out.rows = 1 /\ sl.out.cols = 2

\* C11: an init_update after the first whose ens_mask has another size than
\* the stored mask, or is true where the stored mask is false, fails with
\* MaskError, and the stored ens_mask is the same after the call.
C11_BadMaskRefused ==
    [][(/\ call'.op = "init_update"
        /\ data.ens_mask # NoMask
        /\ IF bool_vector_size(call'.ens_last) # bool_vector_size(data.ens_mask)
           THEN TRUE
           ELSE \E iens \in 1..bool_vector_size(data.ens_mask) :
                    call'.ens_last[iens] /\ ~data.ens_mask[iens])
       => /\ call'.err = "MaskError"
          /\ data'.ens_mask = data.ens_mask]_vars

\* the last init_update was given a mask of the stored size that is true at
\* a realization the stored mask has dropped
C11_Witness ==
    /\ call.op = "init_update"
    /\ call.err = "MaskError"
    /\ bool_vector_size(call.ens_last) = bool_vector_size(data.ens_mask)
    /\ \E iens \in 1..bool_vector_size(data.ens_mask) :
           call.ens_last[iens] /\ ~data.ens_mask[iens]

\* C12: an updateA on a state object that init_update was never called on
\* (no masks, no W) ends with a StateError and does not go on with the
\* update.
C12_UpdateABeforeInitIsStateError ==
    (call.op = "updateA" /\ data.ens_mask = NoMask) =>
        /\ call.err = "StateError"
        /\ data.iteration_nr = 0
        /\ data.E = NULL
        /\ data.A0 = NULL

\* C13: a step that changes the caller's A is an updateA that completed: a
\* failing updateA, like init_update, leaves every value of A as it was.
C13_AWrittenOnSuccessOnly ==
    [][A' # A => (call'.op = "updateA" /\ call'.err = "none")]_vars

\* an updateA failed after an earlier one had written A, and A still holds
\* what the earlier one wrote
C13_Witness ==
    /\ call.op = "updateA"
    /\ call.err # "none"
    /\ call.updates >= 2
    /\ A # A_of(StateRows, EnsSize)

\* C14: an inversion tag outside 0..3 given to set_int(IES_INVERSION, v) ends
\* in ConfigError, and no updateA completes a W update while the configured
\* tag is outside 0..3.
C14_UnknownInversionRefused ==
    LET known == {IES_INVERSION_EXACT, IES_INVERSION_SUBSPACE_EXACT_R,
                  IES_INVERSION_SUBSPACE_EE_R, IES_INVERSION_SUBSPACE_RE}
    IN  /\ (/\ call.op = "set_int"
            /\ call.set.var_name = "IES_INVERSION"
            /\ call.set.value \notin known) => call.err = "ConfigError"
        /\ (call.op = "updateA" /\ call.err = "none") =>
               get_inversion(data_get_config(data)) \in known

C16_TruncationIsOneOfTwo ==
    LET dimension == get_int(data, "ENKF_SUBSPACE_DIMENSION")
        fraction == get_double(data, "ENKF_TRUNCATION")
        last == call.truncation_set
    IN  /\ dimension = -1 \/ fraction = -100
        /\ (last # NULL /\ last.kind = "int") =>
               dimension = last.value /\ fraction = -100
        /\ (last # NULL /\ last.kind = "double") =>
               fraction = last.value /\ dimension = -1

\* a dimension was set over a fraction that had been set before: the int
\* getter returns it and the double getter returns -1.0
C16_Witness ==
    /\ call.op = "set_int"
    /\ call.err = "none"
    /\ call.set.var_name = "ENKF_SUBSPACE_DIMENSION"
    /\ call.truncation_set = [kind |-> "int", value |-> 5]
    /\ get_int(data, "ENKF_SUBSPACE_DIMENSION") = 5
    /\ get_double(data, "ENKF_TRUNCATION") = -100

\* C17: init_update leaves iteration_nr as it is and updateA adds one to it,
\* so over these two it never decreases and stays non-negative once it is;
\* set_int(ITER, v) writes v as given, whatever the counter was.
C17_IterationNrWritable ==
    [][/\ call'.op = "init_update" =>
              data'.iteration_nr = data.iteration_nr
       /\ (call'.op = "updateA" /\ call'.err # "Crash") =>
              data'.iteration_nr = data.iteration_nr + 1
       /\ call'.op \in {"init_update", "updateA"} =>
              /\ data'.iteration_nr >= data.iteration_nr
              /\ data.iteration_nr >= 0 => data'.iteration_nr >= 0
       /\ (call'.op = "set_int" /\ call'.set.var_name = "ITER") =>
              /\ call'.err = "none"
              /\ data'.iteration_nr = call'.set.value
       /\ call'.op = "set_double" =>
              data'.iteration_nr = data.iteration_nr]_vars

\* an updateA ran at iteration 3 as the first updateA of the state, after
\* set_int(ITER, 2)
C17_Witness ==
    /\ call.op = "updateA"
    /\ call.err = "none"
    /\ call.updates = 1
    /\ data.iteration_nr = 3

\* C17 as it was stated: iteration_nr never decreases and is never negative
\* over init_update, updateA and set_int, the ITER key included.
C17_IterationNrMonotone ==
    [][/\ data'.iteration_nr >= data.iteration_nr
       /\ data'.iteration_nr >= 0]_vars

\* C18: when the innovation matrix is zero and the stored W is zero, as it is
\* at the first updateA after init_update, a completed updateA has X = I and
\* leaves the active part of A equal to the prior A0, whatever inversion tag
\* and step length are configured; the W it stores is zero again.
C18_ZeroInnovationIsFixedPoint ==
    (/\ call.op = "updateA"
     /\ call.err = "none"
     /\ call.updates = 1
     /\ call.din_zero) =>
        /\ \A i, j \in 1..matrix_get_columns(call.X) :
               call.X.val[i][j] = Num(IF i = j THEN 1 ELSE 0)
        /\ A_active(A, data.ens_mask) = data.A0
        /\ A = A_of(StateRows, EnsSize)
        /\ matrix_is_zero(data.W)

\* the first updateA completed on a zero innovation under the exact
\* inversion and a step length of 1.0
C18_Witness ==
    /\ call.op = "updateA"
    /\ call.err = "none"
    /\ call.updates = 1
    /\ call.din_zero
    /\ get_inversion(data_get_config(data)) = IES_INVERSION_EXACT
    /\ steplength_is(call.steplength, 100)
    /\ call.X # NULL

\* C19: calculate_steplength does not increase with the iteration number, is
\* the maximum at iteration 1 and closes in on the minimum (the exponent
\* num/den grows without bound over a non-negative diff), so an updateA never
\* uses a larger step length than the updateA before it when no setter was
\* called between the two.
C19_SteplengthNeverIncreases ==
    LET config == data_get_config(data)
        gamma(iter) == calculate_steplength(config, iter)
        \* a <= b for two values of one schedule
        leq(a, b) == /\ a.min = b.min /\ a.diff = b.diff /\ a.den = b.den
                     /\ a.den > 0
                     /\ a.diff = 0 \/ (a.diff > 0 /\ a.num >= b.num)
    IN  /\ \A iter1, iter2 \in 1..(MaxIter + 1) :
               iter1 < iter2 => leq(gamma(iter2), gamma(iter1))
        /\ steplength_is(gamma(1), get_max_steplength(config))
        /\ \A iter \in 1..MaxIter :
               /\ gamma(iter).min = get_min_steplength(config)
               /\ gamma(iter).diff >= 0
               /\ gamma(iter).den > 0
               /\ gamma(iter + 1).num >= gamma(iter).num + 100
        /\ (call.op = "updateA" /\ call.steplength_before # NULL) =>
               leq(call.steplength, call.steplength_before)

\* an updateA used a smaller step length than the one before it
C19_Witness ==
    /\ call.op = "updateA"
    /\ call.err = "none"
    /\ call.steplength_before # NULL
    /\ call.steplength.diff > 0
    /\ call.steplength.num > call.steplength_before.num
    /\ call.steplength_before.num = 0

\* C19 as it was stated: besides the properties of the schedule, no updateA
\* of one state uses a larger step length than the updateA before it,
\* whatever was called between the two.
C19_SuccessiveUpdatesNeverIncrease ==
    LET config == data_get_config(data)
        gamma(iter) == calculate_steplength(config, iter)
        \* a > b for two values over one minimum and one decay
        greater(a, b) == /\ a.min = b.min /\ a.den = b.den /\ a.den > 0
                         /\ b.diff >= 0
                         /\ a.diff >= b.diff /\ a.num <= b.num
                         /\ a.diff > 0
                         /\ a.diff > b.diff \/ a.num < b.num
    IN  /\ \A iter1, iter2 \in 1..(MaxIter + 1) :
               iter1 < iter2 => ~greater(gamma(iter2), gamma(iter1))
        /\ steplength_is(gamma(1), get_max_steplength(config))
        /\ (call.op = "updateA" /\ call.steplength_last # NULL) =>
               ~greater(call.steplength_used, call.steplength_last)

\* C20: a completed updateA leaves the caller's Yin, Rin, Ein and Din as they
\* were given (it works on copies of Yin, Rin and Din, only reads Ein and
\* never touches dObs); A is the only matrix of the caller it writes.
C20_InputsReadOnly ==
    (call.op = "updateA" /\ call.err = "none") => call.inputs_kept

\* an updateA completed whose Ein was not the stored E, so that its local D
\* was changed in place (D = Din - Ein + E), and A was written
C20_Witness ==
    /\ call.op = "updateA"
    /\ call.err = "none"
    /\ call.updates >= 2
    /\ call.Ein # alloc_activeE(data)
    /\ call.inputs_kept
    /\ A # A_of(StateRows, EnsSize)

\* C21: init_update changes only ens_mask, obs_mask, obs_mask0 (when it is
\* not yet set) and W (allocated zero-filled when it is absent); it leaves
\* iteration_nr, E, A0, the state size, an allocated W, the configuration and
\* the caller's A as they are, and a refused call leaves the whole state.
C21_InitUpdateFrame ==
    [][call'.op = "init_update" =>
          /\ data'.iteration_nr = data.iteration_nr
          /\ data'.E = data.E
          /\ data'.A0 = data.A0
          /\ data'.state_size = data.state_size
          /\ data'.config = data.config
          /\ A' = A
          /\ data.W # NULL => data'.W = data.W
          /\ data.obs_mask0 # NoMask => data'.obs_mask0 = data.obs_mask0
          /\ call'.err # "none" => data' = data
          /\ call'.err = "none" =>
                 /\ data'.ens_mask = call'.ens_last
                 /\ data'.obs_mask = call'.obs_last
                 /\ data.obs_mask0 = NoMask => data'.obs_mask0 = call'.obs_last
                 /\ data.W = NULL =>
                        data'.W = matrix_alloc(bool_vector_size(call'.ens_last),
                                               bool_vector_size(call'.ens_last))]_vars

\* an init_update with a smaller ensemble mask was accepted after a completed
\* updateA had stored a W that is not zero, an E and an A0
C21_Witness ==
    /\ call.op = "init_update"
    /\ call.err = "none"
    /\ call.updates >= 1
    /\ data.W # NULL /\ ~matrix_is_zero(data.W)
    /\ data.E # NULL /\ data.A0 # NULL
    /\ bool_vector_count_equal(data.ens_mask, TRUE) < EnsSize

\* C22: when updateA has returned, normally or with an error, every matrix
\* it allocated has been freed exactly once: none is still allocated and
\* none was freed again.
C22_LocalMatricesReleased ==
    (call.op = "updateA" /\ call.err # "Crash") =>
        \A i \in DOMAIN call.ledger :
            /\ ledger_count(call.ledger, "alloc", call.ledger[i][2]) = 1
            /\ ledger_count(call.ledger, "free", call.ledger[i][2]) = 1

\* C23: when the calls on two state objects are interleaved by two threads,
\* each object has after each of its calls the W, E, A0, masks and
\* iteration_nr, and its caller the A and the error, that the call run alone
\* on that object gives.
C23_ReentrantPerObject ==
    \A t \in Threads :
        (th.obj[t].pc = "idle" /\ th.obj[t].alone # NULL) =>
            /\ th.obj[t].data = th.obj[t].alone.data
            /\ th.obj[t].A = th.obj[t].alone.A
            /\ th.obj[t].err = th.obj[t].alone.err

\* both threads have completed two updateA calls, one entered while the
\* other was inside its own, and the two objects ended with different W
C23_Witness ==
    /\ th.overlapped
    /\ \A t \in Threads :
           /\ th.obj[t].pc = "idle"
           /\ th.obj[t].calls = ThreadCalls
           /\ th.obj[t].err = "none"
           /\ th.obj[t].data.iteration_nr = ThreadCalls
    /\ th.obj[1].data.W # th.obj[2].data.W
    /\ th.obj[1].A # th.obj[2].A
    /\ Cardinality(th.log) = 2 * ThreadCalls

\* C24: an updateA given matrices whose dimensions do not fit the masks or
\* each other (the columns of Yin against the active realizations, the rows
\* of Yin against the active observations, Ein, Din and Rin against Yin) ends
\* in ShapeError and computes no update.
C24_BadShapesRefused ==
    (call.op = "updateA" /\ ~call.shapes_fit) =>
        /\ call.err = "ShapeError"
        /\ call.X = NULL
        /\ call.W0 = NULL

\* C27: in SUBSPACE_EXACT_R mode lowrankCinv is handed R scaled by
\* nsc * nsc = 1/(N - 1); SUBSPACE_EE_R hands it E * E' scaled by
\* 1/(N - 1)^2, and the two factors are the same only when N = 2.
C27_RScaledByNscSquared ==
    sl.pc = "lowrank" =>
        LET N == sl.ens_size
            Cee == subspace_lowrank(IES_INVERSION_SUBSPACE_EE_R, sl.E, sl.R, N)
        IN  /\ sl.ies_inversion = IES_INVERSION_SUBSPACE_EXACT_R =>
                   /\ sl.out.routine = "lowrankCinv"
                   /\ sl.out.M = sl.R
                   /\ ~sl.out.root
                   /\ sl.out.den = N - 1
                   /\ (sl.out.den = Cee.den) <=> (N = 2)
            /\ sl.ies_inversion = IES_INVERSION_SUBSPACE_EE_R =>
                   /\ sl.out.routine = "lowrankCinv"
                   /\ sl.out.M = matrix_E_Et(sl.E)
                   /\ ~sl.out.root
                   /\ sl.out.den = (N - 1) * (N - 1)

\* R was scaled for lowrankCinv with three realizations: by 1/2, where E * E'
\* is scaled by 1/4
C27_Witness ==
    /\ sl.pc = "lowrank"
    /\ sl.ies_inversion = IES_INVERSION_SUBSPACE_EXACT_R
    /\ sl.ens_size = 3
    /\ sl.out.den = 2
    /\ subspace_lowrank(IES_INVERSION_SUBSPACE_EE_R, sl.E, sl.R, 3).den = 4

\* C27 as it was stated: in SUBSPACE_EXACT_R mode R is scaled by 1/(N - 1)^2,
\* the factor SUBSPACE_EE_R applies to E * E'.
C27_RScaledAsCee ==
    (sl.pc = "lowrank" /\ sl.ies_inversion = IES_INVERSION_SUBSPACE_EXACT_R) =>
        /\ sl.out.den = (sl.ens_size - 1) * (sl.ens_size - 1)
        /\ sl.out.den = subspace_lowrank(IES_INVERSION_SUBSPACE_EE_R, sl.E, sl.R,
                                         sl.ens_size).den

\* C28: has_var is true for exactly the ten keys of the module; a setter
\* call that returns tells true exactly when the key is one of the setter's
\* type (a call that does not return was refused for its value, the key being
\* one of the setter's type); a call with a key that is not of the setter's
\* type leaves the state as it was; and set_bool(IES_DEBUG, v) returns true
\* and leaves the state as it was.
C28_KeysRecognized ==
    [][LET var_name == call'.set.var_name
           op == call'.op
           typed == [set_int    |-> {"ENKF_SUBSPACE_DIMENSION", "ITER",
                                     "IES_INVERSION"},
                     set_double |-> {"ENKF_TRUNCATION", "IES_MAX_STEPLENGTH",
                                     "IES_MIN_STEPLENGTH", "IES_DEC_STEPLENGTH"},
                     set_string |-> {"IES_LOGFILE"},
                     set_bool   |-> {"IES_AAPROJECTION", "IES_DEBUG"}]
           all == typed.set_int \cup typed.set_double \cup typed.set_string
                      \cup typed.set_bool
       IN  /\ Cardinality(all) = 10
           /\ \A k \in env.int_keys \cup env.double_keys \cup env.string_keys
                           \cup env.bool_keys :
                  has_var(data, k) <=> k \in all
           /\ has_var(data', var_name) <=> var_name \in all
           /\ call'.err = "none" =>
                  (call'.set.name_recognized <=> var_name \in typed[op])
           /\ call'.err # "none" => var_name \in typed[op] /\ data' = data
           /\ var_name \notin typed[op] => data' = data
           /\ (op = "set_bool" /\ var_name = "IES_DEBUG") =>
                  /\ call'.err = "none"
                  /\ call'.set.name_recognized
                  /\ data' = data]_vars

\* set_bool(IES_DEBUG) was accepted on a state whose configuration and
\* iteration number had been set before
C28_Witness ==
    /\ call.op = "set_bool"
    /\ call.set.var_name = "IES_DEBUG"
    /\ call.set.name_recognized
    /\ get_aaprojection(data_get_config(data))
    /\ data_get_config(data).logfile = "ies.log"
    /\ data_get_iteration_nr(data) = 2
    /\ get_inversion(data_get_config(data)) = 7

\* C29: once every member has called gen_data_config_update_active for a
\* report step of positive size, and that report step is the one the mask
\* stands for, active_mask is true only for the elements whose data_mask
\* entry was true for every member.
C29_ActiveMaskTrueForAllMembers ==
    \A r \in (0..MaxReportStep) :
        (/\ ~gdc.aborted
         /\ \A m \in 1..Members : gdc.loaded[m][r] # NULL
         /\ gdc.config.active_report_step = r
         /\ int_vector_safe_iget(gdc.config.data_size_vector, r) > 0) =>
            \A i \in 1..Len(gdc.config.active_mask) :
                gdc.config.active_mask[i] =>
                    \A m \in 1..Members : gdc.loaded[m][r].data_mask[i]

\* C30: a call of gen_data_config_assert_size for a report step without a
\* recorded size records the caller's size, a call with another size than the
\* recorded one aborts, and no step of any member changes a recorded size
\* (the body of the call is the step that leaves the member past the call,
\* or aborted).
C30_RecordedSizeKept ==
    [][\A r \in (0..MaxReportStep) :
           LET old == int_vector_safe_iget(gdc.config.data_size_vector, r)
               new == int_vector_safe_iget(gdc'.config.data_size_vector, r)
           IN  /\ old # NOT_SET => new = old
               /\ \A m \in 1..Members :
                      (/\ gdc.member[m].at = "assert_size"
                       /\ gdc.member[m].report_step = r
                       /\ \/ gdc'.member[m].at = "assert_size_done"
                          \/ gdc'.aborted) =>
                          IF old = NOT_SET
                          THEN new = gdc.member[m].data_size /\ ~gdc'.aborted
                          ELSE IF old # gdc.member[m].data_size
                          THEN gdc'.aborted
                          ELSE ~gdc'.aborted]_vars

\* a member that loaded another size than the one a member before it had
\* recorded for the report step was aborted, and the recorded size is still
\* the first member's
C30_Witness ==
    \E r \in (0..MaxReportStep) : \E m, first \in 1..Members :
        /\ m # first
        /\ gdc.aborted
        /\ gdc.member[m].at = "assert_size"
        /\ gdc.member[m].report_step = r
        /\ gdc.loaded[first][r] # NULL
        /\ Len(gdc.loaded[first][r].data_mask) =
               int_vector_safe_iget(gdc.config.data_size_vector, r)
        /\ gdc.member[m].data_size #
               int_vector_safe_iget(gdc.config.data_size_vector, r)

\* C31: the D an updateA calls ies_initX__ with is Din - Ein + E, entry by
\* entry, E the slice of the stored perturbations for the active
\* observations and realizations; when the state held no E before the call,
\* that slice is Ein and the D is Din.
C31_DReconciled ==
    (call.op = "updateA" /\ call.D # NULL) =>
        LET E == alloc_activeE(data)
            D == call.D.handed
        IN  /\ same_shape(D, call.D.Din)
            /\ same_shape(D, call.Ein)
            /\ same_shape(D, E)
            /\ \A i \in 1..D.rows : \A j \in 1..D.cols :
                   D.val[i][j] = call.D.Din.val[i][j] - call.Ein.val[i][j]
                                     + E.val[i][j]
            /\ call.D.first =>
                   /\ \A i \in 1..D.rows : \A j \in 1..D.cols :
                          E.val[i][j] = call.Ein.val[i][j]
                   /\ \A i \in 1..D.rows : \A j \in 1..D.cols :
                          D.val[i][j] = call.D.Din.val[i][j]

\* a later updateA, on other active observations than the first and with
\* another E_in than the stored one, was handed a D that is not its D_in
C31_Witness ==
    /\ call.op = "updateA"
    /\ call.err = "none"
    /\ call.D # NULL
    /\ ~call.D.first
    /\ call.updates >= 2
    /\ data.obs_mask # call.obs_first
    /\ \E i \in 1..call.D.handed.rows : \E j \in 1..call.D.handed.cols :
           call.D.handed.val[i][j] # call.D.Din.val[i][j]

C33_InitXIsFirstUpdateA ==
    [][(sl'.pc = "initX" /\ sl' # sl) =>
           LET ies_config == sl'.ies_config
               ens_size == matrix_get_columns(sl'.Y0)
               fresh == init_update([data_alloc EXCEPT !.config = ies_config],
                                    FullMask(ens_size),
                                    FullMask(matrix_get_rows(sl'.Y0))).data
               first == updateA(fresh, A_of(StateRows, ens_size), sl'.Y0,
                                sl'.R, sl'.E, sl'.D, sl'.outcome, "trap")
           IN  /\ data' = data
               /\ A' = A
               /\ (/\ ~get_aaprojection(ies_config)
                   /\ steplength_is(calculate_steplength(ies_config, 1), 100)) =>
                      /\ first.iter = 1
                      /\ sl'.out.err = first.err
                      /\ sl'.out.X = first.X
                      /\ sl'.out.W0 = first.W0]_vars

\* initX has computed an X that is not the identity, under the exact
\* inversion and a maximal step length of 1 set before the call
C33_Witness ==
    /\ sl.pc = "initX"
    /\ sl.out.err = "none"
    /\ ~matrix_is_zero(sl.out.W0)
    /\ get_inversion(sl.ies_config) = IES_INVERSION_EXACT
    /\ steplength_is(calculate_steplength(sl.ies_config, 1), 100)
    /\ data_get_config(data) = sl.ies_config

\* C36: the statistics a meas_block keeps are never stale. Whenever
\* stat_calculated is set, the mean and the standard deviation places of
\* every active observation hold the mean and the standard deviation of the
\* values meas_block_iget reads for that observation over the members of the
\* mask; and what meas_block_iget_ens_mean and meas_block_iget_ens_std have
\* returned for an active observation are these two numbers.
C36_StatisticsNeverStale ==
    LET b == meas.block
        members == {iens \in 0..(Len(b.ens_mask) - 1) : b.ens_mask[iens + 1]}
        n == Cardinality(members)
        RECURSIVE sum(_, _, _)
        sum(iobs, S, power) ==
            IF S = {} THEN 0
            ELSE LET iens == CHOOSE i \in S : TRUE
                     x == meas_block_iget(b, iens, iobs).value.num
                 IN  (IF power = 2 THEN x * x ELSE x)
                     + sum(iobs, S \ {iens}, power)
        mean(iobs) == [num |-> sum(iobs, members, 1), den |-> n, root |-> FALSE]
        var(iobs) == n * sum(iobs, members, 2)
                     - sum(iobs, members, 1) * sum(iobs, members, 1)
        std(iobs) == [num |-> IF var(iobs) > 0 THEN var(iobs) ELSE 0,
                      den |-> n * n, root |-> TRUE]
    IN  /\ b.stat_calculated =>
               \A iobs \in 0..(b.obs_size - 1) :
                   b.active[iobs + 1] =>
                       /\ b.data[n + iobs * (n + 2) + 1] = mean(iobs)
                       /\ b.data[n + 1 + iobs * (n + 2) + 1] = std(iobs)
        /\ (meas.last.op = "meas_block_iget_ens_mean"
            /\ b.active[meas.last.iobs + 1]) =>
               meas.last.value = mean(meas.last.iobs)
        /\ (meas.last.op = "meas_block_iget_ens_std"
            /\ b.active[meas.last.iobs + 1]) =>
               meas.last.value = std(meas.last.iobs)

\* a standard deviation that is not zero has been returned for an active
\* observation, while the other observation, set and deactivated before,
\* still has its value
C36_Witness ==
    /\ meas.last.op = "meas_block_iget_ens_std"
    /\ meas.block.active[meas.last.iobs + 1]
    /\ meas.last.value.num > 0
    /\ meas.block.stat_calculated
    /\ \E iobs \in 0..(MeasObsSize - 1) :
           /\ ~meas.block.active[iobs + 1]
           /\ meas_block_iget(meas.block, 0, iobs).value.num > 0

\* C37: meas_block_iset(iens, iobs, v) for a member of the mask makes
\* meas_block_iget(iens, iobs) return v, also as the next call made, and
\* changes what meas_block_iget reads for no other member and observation and
\* the mean and standard deviation places of no other observation;
\* meas_block_iset and meas_block_iget for a member the mask leaves out abort
\* and leave the block as it was.
C37_ISetThenIGet ==
    [][LET b == meas.block
           after == meas'.block
           last == meas'.last
           n == b.active_ens_size
       IN  /\ (last.op = "meas_block_iset" /\ b.ens_mask[last.iens + 1]) =>
                  /\ ~last.abort
                  /\ meas_block_iget(after, last.iens, last.iobs) =
                         [abort |-> FALSE,
                          value |-> [num |-> last.value, den |-> 1,
                                     root |-> FALSE]]
                  /\ \A iens \in 0..(Len(b.ens_mask) - 1),
                        iobs \in 0..(b.obs_size - 1) :
                         <<iens, iobs>> # <<last.iens, last.iobs>> =>
                             meas_block_iget(after, iens, iobs) =
                                 meas_block_iget(b, iens, iobs)
                  /\ \A iobs \in 0..(b.obs_size - 1) :
                         iobs # last.iobs =>
                             /\ after.data[n + iobs * (n + 2) + 1] =
                                    b.data[n + iobs * (n + 2) + 1]
                             /\ after.data[n + 1 + iobs * (n + 2) + 1] =
                                    b.data[n + 1 + iobs * (n + 2) + 1]
           /\ (last.op = "meas_block_iget" /\ b.ens_mask[last.iens + 1]) =>
                  /\ ~last.abort
                  /\ after = b
                  /\ (/\ meas.last.op = "meas_block_iset"
                      /\ meas.last.iens = last.iens
                      /\ meas.last.iobs = last.iobs) =>
                         last.value = [num |-> meas.last.value, den |-> 1,
                                       root |-> FALSE]
           /\ (last.op \in {"meas_block_iset", "meas_block_iget"}
               /\ ~b.ens_mask[last.iens + 1]) =>
                  /\ last.abort
                  /\ after = b]_vars

\* under the mask that leaves out member 0, meas_block_iget has returned for
\* member 1 the value set in observation 1, another than the one the member
\* has in observation 0
C37_Witness ==
    /\ meas.block.ens_mask = <<FALSE, TRUE>>
    /\ meas.last.op = "meas_block_iget"
    /\ meas.last.iens = 1
    /\ meas.last.iobs = 1
    /\ ~meas.last.abort
    /\ meas.last.value.num = MaxMeasValue
    /\ meas.block.data[1].num = 1

\* C34: a call of meas_data_add_block returns the block the hash holds under
\* the key of the call; for a key the hash has already, the locked block
\* leaves the vector and the hash as they are, so the block returned is the
\* one the first call with that key created.
C34_AddBlockReturnsBlockOfKey ==
    [][\A t \in DOMAIN meas.thread :
           LET c == meas.thread[t]
           IN  /\ (c.at = "locked" /\ meas'.thread[t].at = "unlocked"
                   /\ <<c.obs_key, c.report_step>> \in DOMAIN meas.matrix.blocks) =>
                      /\ meas'.matrix.data = meas.matrix.data
                      /\ meas'.matrix.blocks = meas.matrix.blocks
               /\ (c.at = "unlocked" /\ meas'.thread[t].at = "idle") =>
                      meas'.thread[t].block =
                          meas.matrix.blocks[<<c.obs_key, c.report_step>>]]_vars

\* C35: of threads that add blocks under keys of their own, each is returned
\* the block the hash holds under the key of its call, and the vector holds
\* one block for every key of the hash and no other.
C35_ThreadsGetOwnBlocks ==
    /\ \A t \in DOMAIN meas.thread :
           LET c == meas.thread[t]
           IN  (c.at = "idle" /\ "block" \in DOMAIN c) =>
                   c.block = meas.matrix.blocks[<<c.obs_key, c.report_step>>]
    /\ Len(meas.matrix.data) = Cardinality(DOMAIN meas.matrix.blocks)
    /\ \A k \in DOMAIN meas.matrix.blocks :
           /\ meas.matrix.blocks[k] \in 1..Len(meas.matrix.data)
           /\ meas.matrix.data[meas.matrix.blocks[k]].obs_key = k[1]
           /\ \A k2 \in DOMAIN meas.matrix.blocks :
                  meas.matrix.blocks[k2] = meas.matrix.blocks[k] => k2 = k

\* C38: a call of gen_data_config_update_active that changes active_mask, or
\* that is the first of a report step of positive size or has a false entry
\* in its data_mask for such a report step, leaves in the <key>_active file
\* of its report step the active_mask the configuration has on return, and
\* mask_modified false.
C38_ChangedMaskIsWritten ==
    [][\A m \in 1..Members :
           (gdc.member[m].at = "update_active" /\ gdc'.member[m].at = "idle") =>
               LET report_step == gdc.member[m].report_step
                   data_mask == gdc.member[m].data_mask
                   size == int_vector_safe_iget(gdc.config.data_size_vector,
                                                report_step)
                   changes ==
                       \/ gdc'.config.active_mask # gdc.config.active_mask
                       \/ /\ size > 0
                          /\ \/ gdc.config.active_report_step # report_step
                             \/ \E i \in 1..Len(data_mask) : ~data_mask[i]
               IN  changes =>
                       /\ gdc'.fs[report_step] =
                              [mask |-> gdc'.config.active_mask]
                       /\ ~gdc'.config.mask_modified]_vars

\* a call for report step 1 has switched an element off and has written the
\* mask, after another mask was written for report step 0
C38_Witness ==
    /\ ~gdc.aborted
    /\ gdc.config.active_report_step = 1
    /\ \E m \in 1..Members : gdc.loaded[m][1] # NULL
    /\ gdc.fs[1] # NULL
    /\ gdc.fs[1].mask = gdc.config.active_mask
    /\ \E i \in 1..Len(gdc.config.active_mask) : ~gdc.config.active_mask[i]
    /\ ~gdc.config.mask_modified
    /\ gdc.fs[0] # NULL
    /\ gdc.fs[0] # gdc.fs[1]

\* C39: no member reads or writes a field of the configuration in
\* gen_data_config_assert_size, gen_data_config_update_active or
\* gen_data_config_load_active without holding update_lock: no access without
\* the lock was made, a member inside the body of a call holds the lock, and
\* while no call has aborted the lock is held only by a member inside a body.
C39_SharedFieldsUnderLock ==
    /\ gdc.unlocked = {}
    /\ \A m \in 1..Members :
           gdc.member[m].at \in {"assert_size", "update_active"} =>
               gdc.update_lock = m
    /\ (~gdc.aborted /\ gdc.update_lock # 0) =>
           gdc.member[gdc.update_lock].at \in {"assert_size", "update_active"}

\* C40: after any calls of gen_data_config_add_report_step,
\* active_report_steps is strictly increasing and holds the report steps
\* added and no other, and gen_data_config_has_report_step is true for
\* exactly the report steps added.
C40_ReportStepsSortedAndUnique ==
    LET v == gdc.config.active_report_steps
    IN  /\ \A i \in 1..(Len(v) - 1) : v[i] < v[i + 1]
        /\ {v[i] : i \in 1..Len(v)} = gdc.added
        /\ Len(v) = Cardinality(gdc.added)
        /\ \A report_step \in (-1)..(MaxAddedStep + 1) :
               gen_data_config_has_report_step(gdc.config, report_step)
                   <=> report_step \in gdc.added

\* three report steps with gaps between them have been added, the largest
\* among them
C40_Witness ==
    /\ Len(gdc.config.active_report_steps) = 3
    /\ gdc.config.active_report_steps[1] = 1
    /\ gdc.config.active_report_steps[2] = 3
    /\ gdc.config.active_report_steps[3] = MaxAddedStep
    /\ gen_data_config_has_report_step(gdc.config, 3)
    /\ ~gen_data_config_has_report_step(gdc.config, 2)

=============================================================================
